---- MODULE Spec2Model ----
(***************************************************************************)
(* The client (ingress) endpoint of tcp-over-nostr: one process that       *)
(* accepts TCP connections, runs one handler and one reader goroutine per  *)
(* session (client_nostr.go) and shares one relay handler with a single    *)
(* buffered event channel (NostrRelayHandler).                             *)
(***************************************************************************)
EXTENDS Integers, Sequences, FiniteSets, TLC

(* ------------------------------ bounds -------------------------------- *)

\* highest sequence number the peer uses in the server_to_client direction
MaxSeq == 2
\* number of events the subscription receives from the relay pool in a run
MaxEvents == 3
\* number of successful socket reads of one session handler
MaxReads == 1
\* number of ephemeral key pairs in the pool of the model (the program: 5000)
keyPoolSize == 3
\* number of calls of createEphemeralGiftWrap in a run
MaxWraps == 4

(* ------------------------- program constants -------------------------- *)

EventChanCap == 100
DoneCap == 2
maxBatchSize == 16384
ReadBufferSize == 32768

(* ------------------------------ domains ------------------------------- *)

\* the session ids of the connections this process accepts, in accept order
Sessions == {1, 2}
\* a session id that no connection of this process carries
ForeignSession == Cardinality(Sessions) + 1

Sequences == 0..MaxSeq

ClientPubkey == "client"
OtherPubkey == "other"

S2C == "server_to_client"
C2S == "client_to_server"

PacketTypeOpen == "open"
PacketTypeData == "data"
PacketTypeClose == "close"

\* the relays of the pool
RelayURLs == {"relay1", "relay2", "relay3"}

\* byte counts a single conn.Read may return (1 .. len(buffer))
ReadSizes == {1, maxBatchSize - 1, maxBatchSize, ReadBufferSize}

VARIABLES
    closeSeq,               \* per session: the sequence at which the peer closes
    eventChan,              \* NostrRelayHandler.eventChan
    numEvents,              \* events received from the pool during the run
    hpc,                    \* handleClientConnectionNostr: position
    conn,                   \* the local TCP socket of the session
    sequence,               \* handler: next client_to_server sequence
    batchBuffer,            \* readClientDataWithBatching: batchBuffer
    timerArmed,             \* readClientDataWithBatching: timer running
    numReads,               \* successful reads so far
    bytesRead,              \* every chunk read from the local socket
    handed,                 \* events handed to PublishEvent / PublishEventAsync
    openResult,             \* result of the synchronous open
    closeResult,            \* result of the synchronous close
    done,                   \* number of values buffered in the done channel
    rpc,                    \* readServerNostrResponses: position
    rexit,                  \* why the reader left its loop
    processedSequences,
    nextExpectedSequence,
    pendingPackets,
    written,                \* bytes written to the local socket by the reader
    delivered,              \* sequences the reader has processed, in order
    arrived,                \* per session and sequence: copies that reached its reader
    lost,                   \* packets of a running session taken by another reader
    everBuffered,           \* sequences that were put into the out-of-order buffer
    asyncAcks,              \* per data event handed to PublishEventAsync: relays that accept it
    pubResults,             \* PublishEvent: what PublishMany reports, in order
    pubReturn,              \* PublishEvent: the returned error
    ctx,                    \* NostrRelayHandler.ctx
    chanClosed,             \* NostrRelayHandler.eventChan was closed
    subpc,                  \* the subscription goroutine: position
    keyPoolIndex,           \* KeyManager.keyPoolIndex
    conversationKeyCache,   \* KeyManager.conversationKeyCache
    initializedTargets,     \* KeyManager.initializedTargets
    cacheMutex,             \* KeyManager.cacheMutex: the task holding the write lock, or 0
    wpc,                    \* createEphemeralGiftWrap, per sending task: position
    wlocal,                 \* its locals: targetPubkey, conversationKeys, oneTimeKey, index
    numWraps,               \* calls of createEphemeralGiftWrap so far
    giftWraps,              \* the gift wraps returned for publishing
    keyCalls,               \* what getNextEphemeralKey returned, call by call
    initCalls,              \* per target: calls of initializeTargetCache
    stores,                 \* per target: assignments of its cache entry
    inWrap,                 \* UnwrapEphemeralGiftWrap: the gift wrap received
    unwrapResult,           \* UnwrapEphemeralGiftWrap: what it returned
    eventFiles,             \* the events directory the server polls
    processedSessions,      \* monitorNostrSessionEvents: processedSessions
    processedEventFiles,    \* monitorNostrSessionEvents: processedEventFiles
    serverSession,          \* per session task: handleServerNostrSession's state
    relayURLs,              \* NewNostrRelayHandler: the configured URLs
    urlIndex,               \* NewNostrRelayHandler: position in the loop over the URLs
    pool,                   \* the relays of the SimplePool
    newHandler              \* NewNostrRelayHandler: what it returned

relayVars == <<closeSeq, eventChan, numEvents>>
handlerVars == <<hpc, conn, sequence, batchBuffer, timerArmed, numReads, bytesRead,
                 handed, openResult, closeResult, asyncAcks>>
readerVars == <<rpc, rexit, processedSequences, nextExpectedSequence, pendingPackets,
                written, delivered, arrived, lost, everBuffered>>
sessionVars == <<relayVars, handlerVars, done, readerVars>>
publishVars == <<pubResults, pubReturn>>
shutdownVars == <<ctx, chanClosed, subpc>>
keyVars == <<keyPoolIndex, conversationKeyCache, initializedTargets, cacheMutex, wpc,
             wlocal, numWraps, giftWraps, keyCalls, initCalls, stores>>
unwrapVars == <<inWrap, unwrapResult>>
serverVars == <<eventFiles, processedSessions, processedEventFiles, serverSession>>
poolVars == <<relayURLs, urlIndex, pool, newHandler>>
serviceVars == <<publishVars, shutdownVars, keyVars, unwrapVars, serverVars, poolVars>>
vars == <<sessionVars, serviceVars>>

(* --------------------------- the peer's packets ----------------------- *)

\* type of the packet the peer sends for (session, sequence)
TypeOf(sid, seq, dir) ==
    IF dir = S2C /\ sid \in Sessions /\ seq = closeSeq[sid]
    THEN PacketTypeClose ELSE PacketTypeData

\* one byte, tagged with the packet it travelled in
Byte(sid, seq, dir) == [sid |-> sid, seq |-> seq, dir |-> dir]

\* ParsedPacket: what UnwrapEphemeralGiftWrap returns for a well-formed event
ParsedPacket(sid, seq, dir) ==
    [SessionID |-> sid, Sequence |-> seq, Direction |-> dir,
     Type |-> TypeOf(sid, seq, dir),
     Data |-> IF TypeOf(sid, seq, dir) = PacketTypeData
              THEN <<Byte(sid, seq, dir)>> ELSE <<>>]

\* a gift wrap event as the subscription sees it: its p tag, whether it
\* decrypts and parses under our key, and the packet it carries
Event(p, ok, sid, seq, dir) ==
    [p |-> p, wrapOK |-> ok, pkt |-> ParsedPacket(sid, seq, dir)]

(* ------------------- readServerNostrResponses (reader) ---------------- *)

EmptyMap == [q \in {} |-> 0]

IsEventForMe(event, myPubkey) == event.p = myPubkey

\* a reader that does not look at the error of the unwrap
UnwrapErrorIgnored(event) == TRUE

\* UnwrapEphemeralGiftWrap returns a packet and no error
UnwrapSucceeds(event) == event.wrapOK

\* a reader that does not compare the session id
BelongsToAnySession(pkt, sessionID) == TRUE

\* the session check of the reader
BelongsToSession(pkt, sessionID) == pkt.SessionID = sessionID

\* the direction check of the reader
WantedDirection(pkt) == pkt.Direction = S2C

\* the reader's filter chain in front of the sequence logic
Accepts(event, sessionID) ==
    /\ IsEventForMe(event, ClientPubkey)
    /\ UnwrapSucceeds(event)
    /\ BelongsToSession(event.pkt, sessionID)
    /\ WantedDirection(event.pkt)

\* a reader that processes every new packet on arrival, without reordering
AdmitNoBuffer(pkt, processed, next) ==
    IF pkt.Sequence \in processed THEN "skip" ELSE "process"

\* a reader that buffers what is ahead and processes everything else
AdmitNoSkip(pkt, processed, next) ==
    IF pkt.Sequence > next THEN "buffer" ELSE "process"

\* what the reader does with an accepted packet: skip it as already
\* processed, buffer it as out of order, or process it now
Admit(pkt, processed, next) ==
    IF pkt.Sequence \in processed THEN "skip"
    ELSE IF pkt.Sequence # next THEN "buffer"
    ELSE "process"

\* pendingPackets[seq] = parsedPacket
Buffer(pending, pkt) ==
    [q \in DOMAIN pending \cup {pkt.Sequence} |->
        IF q = pkt.Sequence THEN pkt ELSE pending[q]]

\* a collection that takes every buffered packet from seq on, gaps included
RECURSIVE CollectSkippingGaps(_, _)
CollectSkippingGaps(pending, seq) ==
    LET keys == {q \in DOMAIN pending : q >= seq}
    IN  IF keys = {} THEN <<>>
        ELSE LET m == CHOOSE q \in keys : \A r \in keys : q <= r
             IN  <<pending[m]>> \o CollectSkippingGaps(pending, m + 1)

\* the consecutive buffered packets starting at seq
RECURSIVE CollectBuffered(_, _)
CollectBuffered(pending, seq) ==
    IF seq \in DOMAIN pending
    THEN <<pending[seq]>> \o CollectBuffered(pending, seq + 1)
    ELSE <<>>

\* a collection that leaves the collected packets in the buffer
DeleteNothing(pending, seq, n) == pending

\* the buffer after the packets seq .. seq+n-1 were deleted from it
DeleteCollected(pending, seq, n) ==
    [q \in DOMAIN pending \ (seq..(seq + n - 1)) |-> pending[q]]

\* an iteration whose close case leaves the switch instead of the reader
ProcessOneNoReturn(st, pkt, writeOK) ==
    LET marked == [st EXCEPT !.processed = @ \cup {pkt.Sequence},
                             !.delivered = Append(@, pkt.Sequence)]
    IN  IF pkt.Type = PacketTypeData /\ Len(pkt.Data) > 0 /\ ~writeOK
        THEN [marked EXCEPT !.exit = "writeErr"]
        ELSE IF pkt.Type = PacketTypeData /\ Len(pkt.Data) > 0
        THEN [marked EXCEPT !.written = @ \o pkt.Data, !.next = pkt.Sequence + 1]
        ELSE [marked EXCEPT !.next = pkt.Sequence + 1]

\* one iteration of "for _, pkt := range packetsToProcess"; st.exit # "none"
\* when the iteration returned from the reader
ProcessOne(st, pkt, writeOK) ==
    LET marked == [st EXCEPT !.processed = @ \cup {pkt.Sequence},
                             !.delivered = Append(@, pkt.Sequence)]
    IN  IF pkt.Type = PacketTypeData /\ Len(pkt.Data) > 0 /\ ~writeOK
        THEN [marked EXCEPT !.exit = "writeErr"]
        ELSE IF pkt.Type = PacketTypeData /\ Len(pkt.Data) > 0
        THEN [marked EXCEPT !.written = @ \o pkt.Data, !.next = pkt.Sequence + 1]
        ELSE IF pkt.Type = PacketTypeClose
        THEN [marked EXCEPT !.exit = "close"]
        ELSE [marked EXCEPT !.next = pkt.Sequence + 1]

\* the whole loop over packetsToProcess; the write of packet number failAt
\* fails, and every write fails once the socket is closed
RECURSIVE ProcessPackets(_, _, _, _, _)
ProcessPackets(pkts, i, st, connOpen, failAt) ==
    IF i > Len(pkts) \/ st.exit # "none" THEN st
    ELSE ProcessPackets(pkts, i + 1,
                        ProcessOne(st, pkts[i], connOpen /\ i # failAt),
                        connOpen, failAt)

ReaderState(s) ==
    [processed |-> processedSequences[s], next |-> nextExpectedSequence[s],
     written |-> written[s], delivered |-> delivered[s], exit |-> "none"]

\* case event := <-relayHandler.GetEventChannel()
ReaderEvent(s) ==
    /\ rpc[s] = "running"
    /\ Len(eventChan) > 0
    /\ LET event == Head(eventChan)
           pkt == event.pkt
       IN  /\ eventChan' = Tail(eventChan)
           /\ IF ~Accepts(event, s)
              THEN /\ lost' = IF /\ IsEventForMe(event, ClientPubkey)
                                 /\ UnwrapSucceeds(event)
                                 /\ pkt.Direction = S2C
                                 /\ pkt.SessionID \in Sessions \ {s}
                                 /\ rpc[pkt.SessionID] = "running"
                              THEN lost \cup {<<pkt.SessionID, pkt.Sequence>>}
                              ELSE lost
                   /\ UNCHANGED <<rpc, rexit, processedSequences, nextExpectedSequence,
                                  pendingPackets, written, delivered, arrived,
                                  everBuffered>>
              ELSE /\ arrived' = [arrived EXCEPT ![s][pkt.Sequence] = @ + 1]
                   /\ lost' = lost
                   /\ LET what == Admit(pkt, processedSequences[s], nextExpectedSequence[s])
                      IN  CASE what = "skip" ->
                                 UNCHANGED <<rpc, rexit, processedSequences,
                                             nextExpectedSequence, pendingPackets,
                                             written, delivered, everBuffered>>
                            [] what = "buffer" ->
                                 /\ pendingPackets' =
                                        [pendingPackets EXCEPT ![s] = Buffer(@, pkt)]
                                 /\ everBuffered' =
                                        [everBuffered EXCEPT ![s] = @ \cup {pkt.Sequence}]
                                 /\ UNCHANGED <<rpc, rexit, processedSequences,
                                                nextExpectedSequence, written, delivered>>
                            [] OTHER ->
                                 LET seq0 == nextExpectedSequence[s] + 1
                                     more == CollectBuffered(pendingPackets[s], seq0)
                                     pkts == <<pkt>> \o more
                                 IN  \E failAt \in 0..Len(pkts) :
                                       LET st == ProcessPackets(pkts, 1, ReaderState(s),
                                                                conn[s] = "open", failAt)
                                       IN  /\ pendingPackets' = [pendingPackets EXCEPT ![s] =
                                                  DeleteCollected(@, seq0, Len(more))]
                                           /\ everBuffered' = everBuffered
                                           /\ processedSequences' =
                                                  [processedSequences EXCEPT ![s] = st.processed]
                                           /\ nextExpectedSequence' =
                                                  [nextExpectedSequence EXCEPT ![s] = st.next]
                                           /\ written' = [written EXCEPT ![s] = st.written]
                                           /\ delivered' = [delivered EXCEPT ![s] = st.delivered]
                                           /\ rexit' = [rexit EXCEPT ![s] = st.exit]
                                           /\ rpc' = [rpc EXCEPT ![s] =
                                                  IF st.exit = "none" THEN "running" ELSE "exiting"]
    /\ UNCHANGED <<closeSeq, numEvents, handlerVars, done>>
    /\ UNCHANGED serviceVars

\* a done channel without a buffer for a second value
CanSendOne(n) == n < 1

\* done <- true does not block: the channel of capacity 2 has room
CanSend(n) == n < DoneCap

\* a select that never takes the done case
DoneNeverReady(n) == FALSE

\* the done case of the select is ready
DoneReady(n) == n > 0

\* case <-done: return
ReaderDone(s) ==
    /\ rpc[s] = "running"
    /\ DoneReady(done[s])
    /\ done' = [done EXCEPT ![s] = @ - 1]
    /\ rpc' = [rpc EXCEPT ![s] = "exiting"]
    /\ rexit' = [rexit EXCEPT ![s] = "done"]
    /\ UNCHANGED <<relayVars, handlerVars, processedSequences, nextExpectedSequence,
                   pendingPackets, written, delivered, arrived, lost,
                   everBuffered>>
    /\ UNCHANGED serviceVars

\* defer func() { done <- true }()
ReaderSignal(s) ==
    /\ rpc[s] = "exiting"
    /\ CanSend(done[s])
    /\ done' = [done EXCEPT ![s] = @ + 1]
    /\ rpc' = [rpc EXCEPT ![s] = "stopped"]
    /\ UNCHANGED <<relayVars, handlerVars, rexit, processedSequences,
                   nextExpectedSequence, pendingPackets, written, delivered, arrived, lost,
                   everBuffered>>
    /\ UNCHANGED serviceVars

(* ----------------------- the subscription goroutine ------------------- *)

\* a channel that makes room by discarding its oldest event
EnqueueDropOldest(chan, event) ==
    IF Len(chan) < EventChanCap THEN Append(chan, event)
    ELSE Append(Tail(chan), event)

\* select { case nrh.eventChan <- relayEvent.Event: ... default: drop }
Enqueue(chan, event) ==
    IF Len(chan) < EventChanCap THEN Append(chan, event) ELSE chan

\* the peer learns a session id from the published open of that session
Sendable(event) ==
    event.pkt.SessionID \in Sessions => openResult[event.pkt.SessionID] = "ok"

Subscription(event) ==
    /\ numEvents < MaxEvents
    /\ subpc = "running"
    /\ ctx = "live"
    /\ Sendable(event)
    /\ numEvents' = numEvents + 1
    /\ eventChan' = Enqueue(eventChan, event)
    /\ UNCHANGED <<closeSeq, handlerVars, done, readerVars>>
    /\ UNCHANGED serviceVars

(* ------------------------- strings and encodings ---------------------- *)

\* a string the code scans, formats or encodes is a sequence of characters
Digits == <<"0", "1", "2", "3", "4", "5", "6", "7", "8", "9">>

IsDigit(c) == \E d \in 1..Len(Digits) : Digits[d] = c
DigitValue(c) == (CHOOSE d \in 1..Len(Digits) : Digits[d] = c) - 1

\* fmt.Sprintf("%d", n) of a number that is not negative
RECURSIVE Sprintf(_)
Sprintf(n) ==
    IF n < 10 THEN <<Digits[n + 1]>>
    ELSE Sprintf(n \div 10) \o <<Digits[(n % 10) + 1]>>

\* the scanner of fmt skips the blanks in front of a number
RECURSIVE SkipSpace(_)
SkipSpace(str) ==
    IF str # <<>> /\ Head(str) = " " THEN SkipSpace(Tail(str)) ELSE str

\* the value of the run of digits str starts with, after the value acc
RECURSIVE ScanNumber(_, _)
ScanNumber(str, acc) ==
    IF str # <<>> /\ IsDigit(Head(str))
    THEN ScanNumber(Tail(str), (10 * acc) + DigitValue(Head(str)))
    ELSE acc

\* fmt.Sscanf(str, "%d", &v): blanks, a sign if v is signed, then digits;
\* what follows the digits is not read, and no digit at all is an error
Sscanf(str, signed) ==
    LET s1 == SkipSpace(str)
        sign == signed /\ s1 # <<>> /\ Head(s1) \in {"+", "-"}
        s2 == IF sign THEN Tail(s1) ELSE s1
        n == ScanNumber(s2, 0)
    IN  IF s2 = <<>> \/ ~IsDigit(Head(s2)) THEN [err |-> TRUE, value |-> 0]
        ELSE [err |-> FALSE, value |-> IF sign /\ Head(s1) = "-" THEN 0 - n ELSE n]

\* base64.StdEncoding: the alphabet and the padding character
Base64Alphabet ==
    <<"A", "B", "C", "D", "E", "F", "G", "H", "I", "J", "K", "L", "M",
      "N", "O", "P", "Q", "R", "S", "T", "U", "V", "W", "X", "Y", "Z",
      "a", "b", "c", "d", "e", "f", "g", "h", "i", "j", "k", "l", "m",
      "n", "o", "p", "q", "r", "s", "t", "u", "v", "w", "x", "y", "z",
      "0", "1", "2", "3", "4", "5", "6", "7", "8", "9", "+", "/">>
Pad == "="

IsBase64Char(c) == \E i \in 1..Len(Base64Alphabet) : Base64Alphabet[i] = c
Base64Value(c) == (CHOOSE i \in 1..Len(Base64Alphabet) : Base64Alphabet[i] = c) - 1

\* the k-th of the four characters that encode the 24 bits n
Sextet(n, k) ==
    LET shift == CASE k = 1 -> 262144 [] k = 2 -> 4096 [] k = 3 -> 64 [] OTHER -> 1
    IN  Base64Alphabet[((n \div shift) % 64) + 1]

\* an encoder that leaves out the padding
RECURSIVE EncodeToStringRaw(_)
EncodeToStringRaw(data) ==
    IF data = <<>> THEN <<>>
    ELSE IF Len(data) = 1
    THEN LET n == data[1] * 65536
         IN  <<Sextet(n, 1), Sextet(n, 2)>>
    ELSE IF Len(data) = 2
    THEN LET n == (data[1] * 65536) + (data[2] * 256)
         IN  <<Sextet(n, 1), Sextet(n, 2), Sextet(n, 3)>>
    ELSE LET n == (data[1] * 65536) + (data[2] * 256) + data[3]
         IN  <<Sextet(n, 1), Sextet(n, 2), Sextet(n, 3), Sextet(n, 4)>>
                 \o EncodeToStringRaw(SubSeq(data, 4, Len(data)))

\* base64.StdEncoding.EncodeToString: three bytes to four characters, the
\* last group padded
RECURSIVE EncodeToString(_)
EncodeToString(data) ==
    IF data = <<>> THEN <<>>
    ELSE IF Len(data) = 1
    THEN LET n == data[1] * 65536
         IN  <<Sextet(n, 1), Sextet(n, 2), Pad, Pad>>
    ELSE IF Len(data) = 2
    THEN LET n == (data[1] * 65536) + (data[2] * 256)
         IN  <<Sextet(n, 1), Sextet(n, 2), Sextet(n, 3), Pad>>
    ELSE LET n == (data[1] * 65536) + (data[2] * 256) + data[3]
         IN  <<Sextet(n, 1), Sextet(n, 2), Sextet(n, 3), Sextet(n, 4)>>
                 \o EncodeToString(SubSeq(data, 4, Len(data)))

\* base64.StdEncoding.DecodeString: groups of four characters, padding only
\* in the last group; anything else is an error
RECURSIVE DecodeString(_)
DecodeString(str) ==
    IF str = <<>> THEN [err |-> FALSE, data |-> <<>>]
    ELSE IF Len(str) < 4 THEN [err |-> TRUE, data |-> <<>>]
    ELSE LET q == SubSeq(str, 1, 4)
             rest == SubSeq(str, 5, Len(str))
             v(i) == Base64Value(q[i])
         IN  IF \A i \in 1..4 : IsBase64Char(q[i])
             THEN LET n == (v(1) * 262144) + (v(2) * 4096) + (v(3) * 64) + v(4)
                      r == DecodeString(rest)
                  IN  IF r.err THEN r
                      ELSE [err |-> FALSE,
                            data |-> <<n \div 65536, (n \div 256) % 256, n % 256>> \o r.data]
             ELSE IF /\ rest = <<>>
                     /\ IsBase64Char(q[1]) /\ IsBase64Char(q[2]) /\ IsBase64Char(q[3])
                     /\ q[4] = Pad
             THEN LET n == (v(1) * 262144) + (v(2) * 4096) + (v(3) * 64)
                  IN  [err |-> FALSE, data |-> <<n \div 65536, (n \div 256) % 256>>]
             ELSE IF /\ rest = <<>>
                     /\ IsBase64Char(q[1]) /\ IsBase64Char(q[2])
                     /\ q[3] = Pad /\ q[4] = Pad
             THEN LET n == (v(1) * 262144) + (v(2) * 4096)
                  IN  [err |-> FALSE, data |-> <<n \div 65536>>]
             ELSE [err |-> TRUE, data |-> <<>>]

(* ------------------------------ KeyManager ---------------------------- *)

\* the goroutines that send packets
Tasks == {1, 2}

\* key pairs are told apart by a name; the two halves of a pair carry it
KeyName(kind, i) == <<kind, i>>
KeyPair(name) == [PrivateKey |-> <<"sec", name>>, PublicKey |-> <<"pub", name>>]

\* km.keys
IdentityKeys == KeyPair(KeyName("identity", 0))

\* the public keys packets are sent to, and a string that is no public key
Targets == {KeyPair(KeyName("server", 0)).PublicKey, KeyPair(KeyName("peer", 0)).PublicKey}
InvalidPubkey == <<"junk", KeyName("junk", 0)>>
NoKeyPair == KeyPair(KeyName("none", 0))

PoolIndices == 0..(keyPoolSize - 1)

\* initializeEphemeralKeyPool: km.ephemeralKeyPool
ephemeralKeyPool == [i \in PoolIndices |-> KeyPair(KeyName("ephemeral", i))]

\* nip44.GenerateConversationKey(pub, sk): the ECDH secret of two key pairs,
\* the same from either side; an error for a string that is no public key
GenerateConversationKey(pub, sk) ==
    IF pub[1] # "pub" THEN [err |-> TRUE, key |-> {}]
    ELSE [err |-> FALSE, key |-> {pub[2], sk[2]}]

\* a rotation whose counter is read and not advanced
getNextEphemeralKeyStuck(counter) ==
    [keyPoolIndex |-> counter,
     index |-> counter % keyPoolSize,
     oneTimeKey |-> ephemeralKeyPool[counter % keyPoolSize]]

\* getNextEphemeralKey: atomic.AddUint64(&km.keyPoolIndex, 1) % keyPoolSize
getNextEphemeralKey(counter) ==
    [keyPoolIndex |-> counter + 1,
     index |-> (counter + 1) % keyPoolSize,
     oneTimeKey |-> ephemeralKeyPool[(counter + 1) % keyPoolSize]]

\* an initializer that does not look at initializedTargets again
RecheckSkipped(initialized, targetPubkey) == FALSE

\* initializeTargetCache, under the lock: if km.initializedTargets[targetPubkey]
AlreadyInitialized(initialized, targetPubkey) == targetPubkey \in initialized

\* the loop of initializeTargetCache: conversationKeys[i] for every pool key
ComputeConversationKeys(targetPubkey) ==
    [i \in PoolIndices |->
        GenerateConversationKey(targetPubkey, ephemeralKeyPool[i].PrivateKey).key]

\* km.conversationKeyCache[targetPubkey] = conversationKeys
StoreCache(cache, targetPubkey, conversationKeys) ==
    [q \in DOMAIN cache \cup {targetPubkey} |->
        IF q = targetPubkey THEN conversationKeys ELSE cache[q]]

\* a lookup that reads the entry of the following pool index
getConversationKeyOffByOne(cache, targetPubkey, ephemeralKeyIndex) ==
    IF targetPubkey \in DOMAIN cache
    THEN [ok |-> TRUE, key |-> cache[targetPubkey][(ephemeralKeyIndex + 1) % keyPoolSize]]
    ELSE [ok |-> FALSE, key |-> {}]

\* getConversationKey: km.conversationKeyCache[targetPubkey][ephemeralKeyIndex];
\* indexing the nil slice of a missing entry panics
getConversationKey(cache, targetPubkey, ephemeralKeyIndex) ==
    IF targetPubkey \in DOMAIN cache /\ ephemeralKeyIndex \in DOMAIN cache[targetPubkey]
    THEN [ok |-> TRUE, key |-> cache[targetPubkey][ephemeralKeyIndex]]
    ELSE [ok |-> FALSE, key |-> {}]

\* event kinds
GiftWrapKind == 21059
RumorKind == 20547
SealKind == 20013

Unsigned == <<"sec", KeyName("unsigned", 0)>>

\* nip44.Encrypt(plaintext, conversationKey)
Encrypt(plaintext, conversationKey) == [key |-> conversationKey, plaintext |-> plaintext]

\* the Version of this build, and one of the 1.x line
Version == <<"v", "2", ".", "0", ".", "2">>
OldVersion == <<"v", "1", ".", "3", ".", "0">>

\* base64 contents: of no payload, of the payload "A", and a string that is
\* no base64
EmptyContent == <<>>
PayloadContent == <<"Q", "Q", "=", "=">>
BrokenContent == <<"Q", "?">>

\* the packet a sender passes to CreateEphemeralGiftWrappedEvent: the payload
\* and the metadata of the rumor
Packet(data, type, sessionID, seq, direction, targetHost, targetPort, clientAddr, errorMsg) ==
    [Data |-> data, Type |-> type, SessionID |-> sessionID, Sequence |-> seq,
     Direction |-> direction, TargetHost |-> targetHost, TargetPort |-> targetPort,
     ClientAddr |-> clientAddr, ErrorMsg |-> errorMsg]

\* an unsigned event: tags holds its tags in order, content its base64 payload
Rumor(pubkey, kind, tags, content) ==
    [Kind |-> kind, PubKey |-> pubkey, Sig |-> Unsigned, Tags |-> tags, Content |-> content]

\* createEphemeralRumor: the unsigned event (kind 20547) that carries the
\* packet, the six required tags first, an optional tag only for a value
\* that is set
createEphemeralRumor(keys, packet) ==
    Rumor(keys.PublicKey, RumorKind,
          <<<<"proxy", "tcp">>, <<"version", Version>>, <<"type", packet.Type>>,
            <<"session", packet.SessionID>>, <<"sequence", Sprintf(packet.Sequence)>>,
            <<"direction", packet.Direction>>>>
          \o (IF packet.TargetHost # ""
              THEN <<<<"target_host", packet.TargetHost>>>> ELSE <<>>)
          \o (IF packet.TargetPort > 0
              THEN <<<<"target_port", Sprintf(packet.TargetPort)>>>> ELSE <<>>)
          \o (IF packet.ClientAddr # ""
              THEN <<<<"client_addr", packet.ClientAddr>>>> ELSE <<>>)
          \o (IF packet.ErrorMsg # ""
              THEN <<<<"error", packet.ErrorMsg>>>> ELSE <<>>),
          IF Len(packet.Data) > 0 THEN EncodeToString(packet.Data) ELSE <<>>)

\* the packet the senders of SpecKeys wrap: one byte of data at sequence 1
DefaultPacket == Packet(<<65>>, PacketTypeData, "s1", 1, C2S, "", 0, "", "")

\* the zero value of a packet
NoPacket == Packet(<<>>, "", "", 0, "", "", 0, "", "")

\* a gift wrap that is published under the sender's identity key
createGiftWrapAsIdentity(content, targetPubkey, oneTimeKey) ==
    [Kind |-> GiftWrapKind, Content |-> content, Tags |-> <<<<"p", targetPubkey>>>>,
     PubKey |-> IdentityKeys.PublicKey, Sig |-> IdentityKeys.PrivateKey]

\* the event createEphemeralGiftWrap builds and signs
createGiftWrap(content, targetPubkey, oneTimeKey) ==
    [Kind |-> GiftWrapKind, Content |-> content, Tags |-> <<<<"p", targetPubkey>>>>,
     PubKey |-> oneTimeKey.PublicKey, Sig |-> oneTimeKey.PrivateKey]

NoLocals ==
    [targetPubkey |-> InvalidPubkey, packet |-> NoPacket, conversationKeys |-> <<>>,
     oneTimeKey |-> NoKeyPair, ephemeralKeyIndex |-> 0, call |-> 0]

WrapUnchanged == UNCHANGED <<sessionVars, publishVars, serverVars, poolVars, shutdownVars, unwrapVars>>

\* CreateEphemeralGiftWrappedEvent is called for a packet: the rumor is
\* built, and ensureTargetInitialized reads initializedTargets under the
\* read lock
StartWrap(t, targetPubkey, packet) ==
    /\ wpc[t] = "idle"
    /\ numWraps < MaxWraps
    /\ cacheMutex = 0
    /\ numWraps' = numWraps + 1
    /\ wlocal' = [wlocal EXCEPT ![t].targetPubkey = targetPubkey,
                                ![t].packet = packet]
    /\ wpc' = [wpc EXCEPT ![t] =
           IF targetPubkey \in initializedTargets THEN "key" ELSE "lock"]
    /\ UNCHANGED <<keyPoolIndex, conversationKeyCache, initializedTargets, cacheMutex,
                   giftWraps, keyCalls, initCalls, stores>>
    /\ WrapUnchanged

\* initializeTargetCache: km.cacheMutex.Lock()
InitLock(t) ==
    /\ wpc[t] = "lock"
    /\ cacheMutex = 0
    /\ cacheMutex' = t
    /\ initCalls' = [initCalls EXCEPT ![wlocal[t].targetPubkey] = @ + 1]
    /\ wpc' = [wpc EXCEPT ![t] = "locked"]
    /\ UNCHANGED <<keyPoolIndex, conversationKeyCache, initializedTargets, wlocal,
                   numWraps, giftWraps, keyCalls, stores>>
    /\ WrapUnchanged

\* a wrap that goes on to take a pool key after the initializer failed
AfterInitErrorIgnored == "key"

\* createEphemeralGiftWrap: the error of ensureTargetInitialized is returned
\* to the caller
AfterInitError == "idle"

\* initializeTargetCache under the lock: return if already initialized, else
\* compute every conversation key into the local array, or fail
InitCompute(t) ==
    /\ wpc[t] = "locked"
    /\ LET targetPubkey == wlocal[t].targetPubkey
       IN  IF AlreadyInitialized(initializedTargets, targetPubkey)
           THEN /\ cacheMutex' = 0
                /\ wpc' = [wpc EXCEPT ![t] = "key"]
                /\ wlocal' = wlocal
           ELSE IF GenerateConversationKey(targetPubkey, ephemeralKeyPool[0].PrivateKey).err
           THEN /\ cacheMutex' = 0
                /\ wpc' = [wpc EXCEPT ![t] = AfterInitError]
                /\ wlocal' = [wlocal EXCEPT ![t] = NoLocals]
           ELSE /\ cacheMutex' = cacheMutex
                /\ wpc' = [wpc EXCEPT ![t] = "computed"]
                /\ wlocal' = [wlocal EXCEPT ![t].conversationKeys =
                       ComputeConversationKeys(targetPubkey)]
    /\ UNCHANGED <<keyPoolIndex, conversationKeyCache, initializedTargets, numWraps,
                   giftWraps, keyCalls, initCalls, stores>>
    /\ WrapUnchanged

\* the end of initializeTargetCache: store the array, mark the target, unlock
InitStore(t) ==
    /\ wpc[t] = "computed"
    /\ LET targetPubkey == wlocal[t].targetPubkey
       IN  /\ conversationKeyCache' =
                  StoreCache(conversationKeyCache, targetPubkey, wlocal[t].conversationKeys)
           /\ initializedTargets' = initializedTargets \cup {targetPubkey}
           /\ stores' = [stores EXCEPT ![targetPubkey] = @ + 1]
    /\ cacheMutex' = 0
    /\ wlocal' = [wlocal EXCEPT ![t].conversationKeys = <<>>]
    /\ wpc' = [wpc EXCEPT ![t] = "key"]
    /\ UNCHANGED <<keyPoolIndex, numWraps, giftWraps, keyCalls, initCalls>>
    /\ WrapUnchanged

\* oneTimeKey, ephemeralKeyIndex := km.getNextEphemeralKey()
NextKey(t) ==
    /\ wpc[t] = "key"
    /\ LET r == getNextEphemeralKey(keyPoolIndex)
       IN  /\ keyPoolIndex' = r.keyPoolIndex
           /\ keyCalls' = Append(keyCalls, [index |-> r.index, oneTimeKey |-> r.oneTimeKey])
           /\ wlocal' = [wlocal EXCEPT ![t].oneTimeKey = r.oneTimeKey,
                                       ![t].ephemeralKeyIndex = r.index,
                                       ![t].call = Len(keyCalls) + 1]
    /\ wpc' = [wpc EXCEPT ![t] = "conv"]
    /\ UNCHANGED <<conversationKeyCache, initializedTargets, cacheMutex, numWraps,
                   giftWraps, initCalls, stores>>
    /\ WrapUnchanged

\* getConversationKey under the read lock, then encrypt the rumor, build the
\* gift wrap, sign it and return it to the sender, which hands it to the pool
WrapAndSign(t) ==
    /\ wpc[t] = "conv"
    /\ cacheMutex = 0
    /\ LET l == wlocal[t]
           conversationKey ==
               getConversationKey(conversationKeyCache, l.targetPubkey, l.ephemeralKeyIndex)
           rumor == createEphemeralRumor(IdentityKeys, l.packet)
           giftWrap == createGiftWrap(Encrypt(rumor, conversationKey.key),
                                      l.targetPubkey, l.oneTimeKey)
       IN  IF conversationKey.ok
           THEN /\ giftWraps' = giftWraps \cup
                       {[call |-> l.call, packet |-> l.packet, event |-> giftWrap]}
                /\ wpc' = [wpc EXCEPT ![t] = "idle"]
           ELSE /\ giftWraps' = giftWraps
                /\ wpc' = [wpc EXCEPT ![t] = "panic"]
    /\ wlocal' = [wlocal EXCEPT ![t] = NoLocals]
    /\ UNCHANGED <<keyPoolIndex, conversationKeyCache, initializedTargets, cacheMutex,
                   numWraps, keyCalls, initCalls, stores>>
    /\ WrapUnchanged

(* ----------------------- UnwrapEphemeralGiftWrap ---------------------- *)

\* nip44.Decrypt(payload, conversationKey)
Decrypt(payload, conversationKey) ==
    IF payload.key = conversationKey
    THEN [err |-> FALSE, plaintext |-> payload.plaintext]
    ELSE [err |-> TRUE, plaintext |-> <<>>]

\* a decrypted text that is no JSON
NotJSON == [junk |-> TRUE]

\* json.Unmarshal([]byte(rumorJSON), &rumor): the event the text encodes
Unmarshal(plaintext) ==
    IF plaintext = NotJSON THEN [err |-> TRUE, event |-> NotJSON]
    ELSE [err |-> FALSE, event |-> plaintext]

\* strings.Contains
Contains(str, sub) ==
    \E i \in 0..(Len(str) - Len(sub)) : SubSeq(str, i + 1, i + Len(sub)) = sub

\* a check that accepts the version of this build only
isVersionCompatibleExact(version) == version = Version

\* isVersionCompatible
isVersionCompatible(version) ==
    Contains(version, <<"2", ".", "0", ".">>) \/ Contains(version, <<"v", "2", ".", "0", ".">>)

\* the tags of the event with the given name and at least a value
TagsNamed(tags, tagName) ==
    {i \in 1..Len(tags) : Len(tags[i]) >= 2 /\ tags[i][1] = tagName}

\* CheckVersionCompatibility: the first version tag decides, no tag passes
CheckVersionCompatibility(event) ==
    LET hits == TagsNamed(event.Tags, "version")
    IN  IF hits = {} THEN TRUE
        ELSE isVersionCompatible(event.Tags[CHOOSE i \in hits : \A j \in hits : i <= j][2])

\* the tags whose values the code scans are sequences of characters, the
\* others are opaque; the empty string of either
EmptyString(tagName) ==
    IF tagName \in {"version", "sequence", "target_port"} THEN <<>> ELSE ""

\* getTagValue of parseRumorAsPacket: the value of the first tag with the
\* name, or the empty string
getTagValue(tags, tagName) ==
    LET hits == TagsNamed(tags, tagName)
    IN  IF hits = {} THEN EmptyString(tagName)
        ELSE tags[CHOOSE i \in hits : \A j \in hits : i <= j][2]

\* a returned error with no packet
NilPacket == [nil |-> TRUE]
Failed(err) == [err |-> err, packet |-> NilPacket]

\* parseRumorAsPacket: the ParsedPacket and "nil", or no packet and the error
parseRumorAsPacket(rumor) ==
    LET decoded == DecodeString(rumor.Content)
        seqStr == getTagValue(rumor.Tags, "sequence")
        seq == Sscanf(seqStr, FALSE)
        portStr == getTagValue(rumor.Tags, "target_port")
        port == Sscanf(portStr, TRUE)
    IN  IF rumor.Kind # RumorKind THEN Failed("invalid rumor kind")
        ELSE IF ~CheckVersionCompatibility(rumor) THEN Failed("incompatible version")
        ELSE IF rumor.Content # <<>> /\ decoded.err THEN Failed("base64 error")
        ELSE IF seqStr # <<>> /\ seq.err THEN Failed("invalid sequence number")
        ELSE IF portStr # <<>> /\ port.err THEN Failed("invalid target port")
        ELSE [err |-> "nil",
              packet |->
                  [Data |-> IF rumor.Content # <<>> THEN decoded.data ELSE <<>>,
                   ClientPubkey |-> rumor.PubKey,
                   Type |-> getTagValue(rumor.Tags, "type"),
                   SessionID |-> getTagValue(rumor.Tags, "session"),
                   Direction |-> getTagValue(rumor.Tags, "direction"),
                   Sequence |-> IF seqStr # <<>> THEN seq.value ELSE 0,
                   TargetHost |-> getTagValue(rumor.Tags, "target_host"),
                   ClientAddr |-> getTagValue(rumor.Tags, "client_addr"),
                   ErrorMsg |-> getTagValue(rumor.Tags, "error"),
                   TargetPort |-> IF portStr # <<>> THEN port.value ELSE 0]]

\* an unwrap that parses whatever the decryption left
UnwrapUnchecked(giftWrap, myKeys) ==
    LET rumor == Unmarshal(giftWrap.Content.plaintext)
    IN  IF rumor.err THEN Failed("parse error")
        ELSE parseRumorAsPacket(rumor.event)

\* UnwrapEphemeralGiftWrap
UnwrapEphemeralGiftWrap(giftWrap, myKeys) ==
    LET conversationKey == GenerateConversationKey(giftWrap.PubKey, myKeys.PrivateKey)
        rumorJSON == Decrypt(giftWrap.Content, conversationKey.key)
        rumor == Unmarshal(rumorJSON.plaintext)
    IN  IF conversationKey.err THEN Failed("conversation key error")
        ELSE IF rumorJSON.err THEN Failed("decrypt error")
        ELSE IF rumor.err THEN Failed("parse error")
        ELSE parseRumorAsPacket(rumor.event)

\* the keys of the peer that sends to this process, and of a third party
PeerKeys == KeyPair(KeyName("server", 0))
OtherKeys == KeyPair(KeyName("peer", 0))
PeerOneTimeKey == KeyPair(KeyName("onetime", 0))

\* a seal (kind 20013): the rumor encrypted identity to identity, signed
Seal(rumor, authorKeys, targetPubkey) ==
    [Kind |-> SealKind,
     Content |-> Encrypt(rumor,
                    GenerateConversationKey(targetPubkey, authorKeys.PrivateKey).key),
     Tags |-> <<>>,
     PubKey |-> authorKeys.PublicKey, Sig |-> authorKeys.PrivateKey]

\* a gift wrap a peer sends, in the direct or in the sealed form, or with a
\* content that decrypts to something that is no event
PeerGiftWrap(form, rumor, targetPubkey) ==
    createGiftWrap(
        Encrypt(CASE form = "sealed" -> Seal(rumor, PeerKeys, targetPubkey)
                  [] form = "junk" -> NotJSON
                  [] OTHER -> rumor,
                GenerateConversationKey(targetPubkey, PeerOneTimeKey.PrivateKey).key),
        targetPubkey, PeerOneTimeKey)

\* versions of the 2.0 line other than this build's, without the v
PlainVersion == <<"2", ".", "0", ".", "1", "-", "r", "c">>

\* what a peer may put into a rumor: the proxy tag, the version tag, the
\* sequence and the port as text, each present or not, well-formed or not
ProxyTags == {<<>>, <<<<"proxy", "tcp">>>>, <<<<"proxy", "udp">>>>}
VersionTags == {<<>>} \cup {<<<<"version", v>>>> : v \in {Version, OldVersion, PlainVersion}}
SequenceTags ==
    {<<>>} \cup {<<<<"sequence", text>>>> :
                    text \in {<<"2">>, <<"x">>, <<"1", "2", "a", "b", "c">>, <<"-", "1">>}}
PortTags == {<<>>, <<<<"target_port", <<"8", "0">>>>>>, <<<<"target_port", <<"x">>>>>>}

PeerTags(proxy, version, seqTag, portTag) ==
    proxy \o version \o <<<<"type", PacketTypeData>>, <<"session", "s1">>>>
          \o seqTag \o <<<<"direction", S2C>>>> \o portTag

\* the gift wraps that can reach this process; km: the keys of the
\* KeyManager that unwraps
InGiftWraps ==
    {[form |-> form, to |-> to, km |-> IdentityKeys,
      rumor |-> Rumor(PeerKeys.PublicKey, kind, tags, content),
      event |-> PeerGiftWrap(form, Rumor(PeerKeys.PublicKey, kind, tags, content), to)] :
        form \in {"direct", "sealed", "junk"},
        to \in {IdentityKeys.PublicKey, OtherKeys.PublicKey},
        kind \in {RumorKind, GiftWrapKind},
        tags \in {PeerTags(proxy, version, seqTag, portTag) :
                     proxy \in ProxyTags, version \in VersionTags,
                     seqTag \in SequenceTags, portTag \in PortTags},
        content \in {EmptyContent, PayloadContent, BrokenContent}}

\* nothing was unwrapped yet
NoResult == Failed("none")

\* the reader unwraps the gift wrap it received
Unwrap ==
    /\ unwrapResult = NoResult
    /\ unwrapResult' = UnwrapEphemeralGiftWrap(inWrap.event, inWrap.km)
    /\ UNCHANGED <<sessionVars, publishVars, serverVars, poolVars, shutdownVars, keyVars, inWrap>>

\* a gift wrap w this process has published reaches a process with the
\* identity keys myKeys, whose KeyManager unwraps it
Receive(w, myKeys) ==
    /\ unwrapResult = NoResult
    /\ inWrap' = [form |-> "direct", to |-> w.event.Tags[1][2], km |-> myKeys,
                  rumor |-> createEphemeralRumor(IdentityKeys, w.packet),
                  event |-> w.event, packet |-> w.packet]
    /\ unwrapResult' = UnwrapEphemeralGiftWrap(w.event, myKeys)
    /\ UNCHANGED <<sessionVars, publishVars, serverVars, poolVars, shutdownVars, keyVars>>

(* ------------------------ NostrRelayHandler.Close --------------------- *)

\* an unrecovered panic of any goroutine ends the process
Crashed == subpc = "panic" \/ \E s \in Sessions : rpc[s] = "panic"

\* nrh.cancel()
CloseCancel ==
    /\ ~Crashed
    /\ ctx = "live"
    /\ ctx' = "cancelled"
    /\ UNCHANGED <<sessionVars, publishVars, serverVars, poolVars, keyVars, unwrapVars, chanClosed, subpc>>

\* close(nrh.eventChan)
CloseChannel ==
    /\ ~Crashed
    /\ ctx = "cancelled"
    /\ ~chanClosed
    /\ chanClosed' = TRUE
    /\ UNCHANGED <<sessionVars, publishVars, serverVars, poolVars, keyVars, unwrapVars, ctx, subpc>>

\* the select of the subscription goroutine for an event it took from the
\* pool's stream before the stream ended, with ctx.Done() ready: Go picks
\* any ready case, and a send on a closed channel is ready and panics
SubscriptionCancelled(event) ==
    /\ ~Crashed
    /\ numEvents < MaxEvents
    /\ subpc = "running"
    /\ ctx = "cancelled"
    /\ Sendable(event)
    /\ numEvents' = numEvents + 1
    /\ \/ /\ subpc' = "stopped"
          /\ eventChan' = eventChan
       \/ /\ chanClosed
          /\ subpc' = "panic"
          /\ eventChan' = eventChan
       \/ /\ ~chanClosed
          /\ Len(eventChan) < EventChanCap
          /\ subpc' = subpc
          /\ eventChan' = Enqueue(eventChan, event)
    /\ UNCHANGED <<closeSeq, handlerVars, done, readerVars, publishVars, serverVars, poolVars, keyVars,
                   unwrapVars, ctx, chanClosed>>

\* the pool ends the stream of a cancelled subscription: the range loop ends
SubscriptionStop ==
    /\ ~Crashed
    /\ subpc = "running"
    /\ ctx = "cancelled"
    /\ subpc' = "stopped"
    /\ UNCHANGED <<sessionVars, publishVars, serverVars, poolVars, keyVars, unwrapVars, ctx, chanClosed>>

\* case event := <-relayHandler.GetEventChannel() on the closed and drained
\* channel: event is nil, and event.ID (verbose) or event.Tags in
\* IsEventForMe dereferences it
ReaderClosed(s) ==
    /\ ~Crashed
    /\ rpc[s] = "running"
    /\ chanClosed
    /\ eventChan = <<>>
    /\ rpc' = [rpc EXCEPT ![s] = "panic"]
    /\ rexit' = [rexit EXCEPT ![s] = "nilEvent"]
    /\ UNCHANGED <<relayVars, handlerVars, done, processedSequences, nextExpectedSequence,
                   pendingPackets, written, delivered, arrived, lost, everBuffered,
                   serviceVars>>

(* --------------------- NostrRelayHandler.PublishEvent ----------------- *)

\* a sequence of relays without repetition
Injective(q) == \A i, j \in 1..Len(q) : i # j => q[i].RelayURL # q[j].RelayURL

\* what PublishMany can report: at most one result per relay, in any
\* order, each with or without an error
PublishResults ==
    UNION {{q \in [1..k -> [RelayURL : RelayURLs, Error : BOOLEAN]] : Injective(q)} :
           k \in 0..Cardinality(RelayURLs)}

\* successCount after the loop over the results
RECURSIVE SuccessCount(_)
SuccessCount(results) ==
    IF results = <<>> THEN 0
    ELSE (IF Head(results).Error THEN 0 ELSE 1) + SuccessCount(Tail(results))

\* a publish that fails only when some relay reported an error
PublishEventNoErrors(results) ==
    IF \E i \in 1..Len(results) : results[i].Error THEN "err" ELSE "nil"

\* the error PublishEvent returns for the results of the pool
PublishEvent(results) ==
    IF SuccessCount(results) = 0 THEN "err" ELSE "nil"

\* one call of PublishEvent on the results the pool reports
Publish ==
    /\ pubReturn = "none"
    /\ pubReturn' = PublishEvent(pubResults)
    /\ UNCHANGED <<sessionVars, pubResults, serverVars, poolVars, shutdownVars, keyVars, unwrapVars>>

\* SendNostrPacketSync: the creation of the gift wrap, then PublishEvent
SendNostrPacketSync(created, results) ==
    IF ~created THEN "createErr"
    ELSE IF PublishEvent(results) # "nil" THEN "publishErr"
    ELSE "ok"

(* ------------------ handleClientConnectionNostr (handler) ------------- *)

\* outcomes of SendNostrPacketSync: published by at least one relay, the
\* gift wrap could not be created, or no relay accepted the event
SyncResults ==
    {SendNostrPacketSync(created, results) :
        created \in BOOLEAN, results \in PublishResults}

\* a caller that takes a rejected publish for a success
SyncSucceededUnlessCreate(r) == r # "createErr"

\* a caller that ignores the error of the synchronous send
SyncAlwaysSucceeded(r) == TRUE

\* SendNostrPacketSync returned nil
SyncSucceeded(r) == r = "ok"

\* the event reached PublishEvent / PublishEventAsync
Handed(log, created, type, seq, data) ==
    IF created THEN Append(log, [Type |-> type, Sequence |-> seq, Data |-> data])
    ELSE log

\* a sender that forgets to advance the counter
SameSequence(seq) == seq

\* *sequence++
NextSequence(seq) == seq + 1

\* sequence number of the close packet, given the handler's counter
CloseSequence(seq) == seq

RECURSIVE BatchLen(_)
BatchLen(batch) ==
    IF batch = <<>> THEN 0 ELSE Head(batch).n + BatchLen(Tail(batch))

\* a sender that reports the relays' answers of the asynchronous publish
SendNostrPacketPropagating(created, acks) ==
    IF ~created THEN "createErr" ELSE IF acks = {} THEN "publishErr" ELSE "ok"

\* SendNostrPacket: only the creation of the gift wrap can fail; the event is
\* handed to the goroutine of PublishEventAsync, which alone sees the
\* answers of the relays (acks: the relays that will accept the event)
SendNostrPacket(created, acks) ==
    IF ~created THEN "createErr" ELSE "ok"

\* the handler's state a send works on
SendState(s) ==
    [sequence |-> sequence[s], handed |-> handed[s], asyncAcks |-> asyncAcks[s]]

\* sendBatchedData on h = SendState; created: the gift wrap was built and
\* handed to PublishEventAsync
sendBatchedData(h, data, created, acks) ==
    IF BatchLen(data) = 0 THEN h
    ELSE LET h1 == [h EXCEPT
                      !.handed = Handed(@, created, PacketTypeData, h.sequence, data),
                      !.asyncAcks = IF created THEN Append(@, acks) ELSE @]
         IN  IF SendNostrPacket(created, acks) # "ok" THEN h1
             ELSE [h1 EXCEPT !.sequence = NextSequence(@)]

\* a handler without the deferred conn.Close()
ConnLeftOpen == "open"

\* the state of the socket once the deferred conn.Close() has run
ConnAfterReturn == "closed"

\* listener.Accept() and go handleClientConnectionNostr(...)
Accept(s) ==
    /\ hpc[s] = "idle"
    /\ \A t \in Sessions : t < s => hpc[t] # "idle"
    /\ hpc' = [hpc EXCEPT ![s] = "open"]
    /\ conn' = [conn EXCEPT ![s] = "open"]
    /\ UNCHANGED <<relayVars, sequence, batchBuffer, timerArmed, numReads, bytesRead,
                   handed, openResult, closeResult, asyncAcks, done, readerVars>>
    /\ UNCHANGED serviceVars

\* the synchronous open, then: go readServerNostrResponses, sequence := 1
SendOpen(s) ==
    /\ hpc[s] = "open"
    /\ \E r \in SyncResults :
         /\ openResult' = [openResult EXCEPT ![s] = r]
         /\ handed' = [handed EXCEPT ![s] =
                Handed(@, r # "createErr", PacketTypeOpen, 0, <<>>)]
         /\ IF SyncSucceeded(r)
            THEN /\ hpc' = [hpc EXCEPT ![s] = "reading"]
                 /\ rpc' = [rpc EXCEPT ![s] = "running"]
                 /\ sequence' = [sequence EXCEPT ![s] = 1]
            ELSE /\ hpc' = [hpc EXCEPT ![s] = "return"]
                 /\ UNCHANGED <<rpc, sequence>>
    /\ UNCHANGED <<relayVars, conn, batchBuffer, timerArmed, numReads, bytesRead,
                   closeResult, asyncAcks, done, rexit, processedSequences,
                   nextExpectedSequence,
                   pendingPackets, written, delivered, arrived, lost,
                   everBuffered>>
    /\ UNCHANGED serviceVars

\* a sender that waits for the timer whatever the size of the batch
BatchNeverFull(batch) == FALSE

\* if len(batchBuffer) >= maxBatchSize
BatchFull(batch) == BatchLen(batch) >= maxBatchSize

\* one iteration of the loop of readClientDataWithBatching whose read
\* returned n > 0 bytes; fired: the batch timer is found expired
ReadUpTo(s, maxReads) ==
    /\ hpc[s] = "reading"
    /\ numReads[s] < maxReads
    /\ \E n \in ReadSizes, created \in BOOLEAN, fired \in BOOLEAN,
          acks \in SUBSET RelayURLs :
         LET chunk == [id |-> numReads[s] + 1, n |-> n]
             h0 == SendState(s)
             b1 == Append(batchBuffer[s], chunk)
             t1 == IF BatchLen(b1) = n THEN TRUE ELSE timerArmed[s]
             full == BatchFull(b1)
             h2 == IF full THEN sendBatchedData(h0, b1, created, acks) ELSE h0
             b2 == IF full THEN <<>> ELSE b1
             t2 == IF full THEN FALSE ELSE t1
             expired == fired /\ t2
             h3 == IF expired THEN sendBatchedData(h2, b2, created, acks) ELSE h2
             b3 == IF expired THEN <<>> ELSE b2
             t3 == IF expired THEN FALSE ELSE t2
         IN  /\ numReads' = [numReads EXCEPT ![s] = @ + 1]
             /\ bytesRead' = [bytesRead EXCEPT ![s] = Append(@, chunk)]
             /\ batchBuffer' = [batchBuffer EXCEPT ![s] = b3]
             /\ timerArmed' = [timerArmed EXCEPT ![s] = t3]
             /\ sequence' = [sequence EXCEPT ![s] = h3.sequence]
             /\ handed' = [handed EXCEPT ![s] = h3.handed]
             /\ asyncAcks' = [asyncAcks EXCEPT ![s] = h3.asyncAcks]
    /\ UNCHANGED <<relayVars, hpc, conn, openResult, closeResult, done, readerVars>>
    /\ UNCHANGED serviceVars

ReadData(s) == ReadUpTo(s, MaxReads)

\* one iteration whose read ended with a deadline timeout
ReadTimeout(s) ==
    /\ hpc[s] = "reading"
    /\ \E created \in BOOLEAN, acks \in SUBSET RelayURLs :
         LET h == sendBatchedData(SendState(s), batchBuffer[s], created, acks)
         IN  /\ sequence' = [sequence EXCEPT ![s] = h.sequence]
             /\ handed' = [handed EXCEPT ![s] = h.handed]
             /\ asyncAcks' = [asyncAcks EXCEPT ![s] = h.asyncAcks]
             /\ batchBuffer' = [batchBuffer EXCEPT ![s] = <<>>]
    /\ UNCHANGED <<relayVars, hpc, conn, timerArmed, numReads, bytesRead, openResult,
                   closeResult, done, readerVars>>
    /\ UNCHANGED serviceVars

\* the read returned EOF or another error: leave the loop, send what is left
ReadEnd(s) ==
    /\ hpc[s] = "reading"
    /\ \E created \in BOOLEAN, acks \in SUBSET RelayURLs :
         LET h == sendBatchedData(SendState(s), batchBuffer[s], created, acks)
         IN  /\ sequence' = [sequence EXCEPT ![s] = h.sequence]
             /\ handed' = [handed EXCEPT ![s] = h.handed]
             /\ asyncAcks' = [asyncAcks EXCEPT ![s] = h.asyncAcks]
             /\ batchBuffer' = [batchBuffer EXCEPT ![s] = <<>>]
             /\ timerArmed' = [timerArmed EXCEPT ![s] = FALSE]
    /\ hpc' = [hpc EXCEPT ![s] = "close"]
    /\ UNCHANGED <<relayVars, conn, numReads, bytesRead, openResult, closeResult,
                   done, readerVars>>
    /\ UNCHANGED serviceVars

\* the synchronous close
SendClose(s) ==
    /\ hpc[s] = "close"
    /\ \E r \in SyncResults :
         /\ closeResult' = [closeResult EXCEPT ![s] = r]
         /\ handed' = [handed EXCEPT ![s] =
                Handed(@, r # "createErr", PacketTypeClose, CloseSequence(sequence[s]), <<>>)]
    /\ hpc' = [hpc EXCEPT ![s] = "signal"]
    /\ UNCHANGED <<relayVars, conn, sequence, batchBuffer, timerArmed, numReads,
                   bytesRead, openResult, asyncAcks, done, readerVars>>
    /\ UNCHANGED serviceVars

\* done <- true
SignalDone(s) ==
    /\ hpc[s] = "signal"
    /\ CanSend(done[s])
    /\ done' = [done EXCEPT ![s] = @ + 1]
    /\ hpc' = [hpc EXCEPT ![s] = "return"]
    /\ UNCHANGED <<relayVars, conn, sequence, batchBuffer, timerArmed, numReads,
                   bytesRead, handed, openResult, closeResult, asyncAcks, readerVars>>
    /\ UNCHANGED serviceVars

\* return, which runs the deferred conn.Close()
Return(s) ==
    /\ hpc[s] = "return"
    /\ conn' = [conn EXCEPT ![s] = ConnAfterReturn]
    /\ hpc' = [hpc EXCEPT ![s] = "done"]
    /\ UNCHANGED <<relayVars, sequence, batchBuffer, timerArmed, numReads, bytesRead,
                   handed, openResult, closeResult, asyncAcks, done, readerVars>>
    /\ UNCHANGED serviceVars

(* --------------------- the egress: server_nostr.go -------------------- *)
(* The server polls a directory of event files.  The monitor starts one   *)
(* session task for the first open of a session id; the task dials the    *)
(* target, then one goroutine applies the client's packets in sequence    *)
(* order and another forwards what the target sends.  A task is named by  *)
(* the file whose open started it.                                         *)

\* ParseNostrEvent: the packet of an event of kind 20547, or the error
ParseNostrEvent(event) ==
    LET decoded == DecodeString(event.Content)
        seqStr == getTagValue(event.Tags, "sequence")
        seq == Sscanf(seqStr, FALSE)
        portStr == getTagValue(event.Tags, "target_port")
        port == Sscanf(portStr, TRUE)
    IN  IF event.Kind # RumorKind THEN Failed("invalid event kind")
        ELSE IF event.Content # <<>> /\ decoded.err THEN Failed("base64 error")
        ELSE IF seqStr # <<>> /\ seq.err THEN Failed("invalid sequence number")
        ELSE IF portStr # <<>> /\ port.err THEN Failed("invalid target port")
        ELSE [err |-> "nil",
              packet |->
                  [Data |-> IF event.Content # <<>> THEN decoded.data ELSE <<>>,
                   Type |-> getTagValue(event.Tags, "type"),
                   SessionID |-> getTagValue(event.Tags, "session"),
                   Direction |-> getTagValue(event.Tags, "direction"),
                   Sequence |-> IF seqStr # <<>> THEN seq.value ELSE 0,
                   TargetHost |-> getTagValue(event.Tags, "target_host"),
                   ClientAddr |-> getTagValue(event.Tags, "client_addr"),
                   ErrorMsg |-> getTagValue(event.Tags, "error"),
                   TargetPort |-> IF portStr # <<>> THEN port.value ELSE 0]]

\* the packets the server sends to the client
CreateDataPacket(sessionID, direction, seq, data) ==
    Packet(data, PacketTypeData, sessionID, seq, direction, "", 0, "", "")
CreateClosePacket(sessionID, direction, seq, errorMsg) ==
    Packet(<<>>, PacketTypeClose, sessionID, seq, direction, "", 0, "", errorMsg)

\* an event file: its name and the event stored in it
EventFile(name, keys, packet) ==
    [name |-> name, event |-> createEphemeralRumor(keys, packet)]

\* the files written during the run: by the client the open of session s1
\* twice, one data packet and the close, and by somebody else a data packet
\* for s1
ServerFiles ==
    {EventFile(1, PeerKeys, Packet(<<>>, PacketTypeOpen, "s1", 0, C2S, "host", 80, "addr", "")),
     EventFile(2, PeerKeys, Packet(<<>>, PacketTypeOpen, "s1", 0, C2S, "host", 80, "addr", "")),
     EventFile(3, PeerKeys, Packet(<<65>>, PacketTypeData, "s1", 1, C2S, "", 0, "", "")),
     EventFile(4, PeerKeys, Packet(<<>>, PacketTypeClose, "s1", 2, C2S, "", 0, "", "")),
     EventFile(5, OtherKeys, Packet(<<67>>, PacketTypeData, "s1", 1, C2S, "", 0, "", ""))}

FileNames == {f.name : f \in ServerFiles}
FileNamed(name) == CHOOSE f \in ServerFiles : f.name = name

\* eventHandler.ReadEvent and ParseNostrEvent of each file
ParsedFiles == [name \in FileNames |-> ParseNostrEvent(FileNamed(name).event)]
ReadAndParse(f) == ParsedFiles[f.name]

\* what the target sends in one read
TargetChunk == <<66>>

\* a session task that was not started
NoSession ==
    [pc |-> "none", sessionID |-> "", clientPubkey |-> <<>>, targetConn |-> "nil",
     sessionActive |-> FALSE, nextExpectedSequence |-> 0, processedSequences |-> {},
     processedFiles |-> {}, ppc |-> "none", tpc |-> "none", done |-> 0, sequence |-> 0,
     targetWritten |-> <<>>, sent |-> <<>>]

\* a task that counts both directions from 1: it expects the client's first
\* data packet and numbers its own first packet 1
StartedSessionFromOne(sessionID, clientPubkey) ==
    [NoSession EXCEPT !.pc = "dial", !.sessionID = sessionID,
                      !.clientPubkey = clientPubkey,
                      !.nextExpectedSequence = 1, !.sequence = 1]

\* go handleServerNostrSession(...): the task is about to dial
StartedSession(sessionID, clientPubkey) ==
    [NoSession EXCEPT !.pc = "dial", !.sessionID = sessionID,
                      !.clientPubkey = clientPubkey]

\* the files visible in the directory
Visible == {eventFiles[i] : i \in DOMAIN eventFiles}

\* a client's event reaches the directory
NewEventFile(f) ==
    /\ f \notin Visible
    /\ eventFiles' = Append(eventFiles, f)
    /\ UNCHANGED <<processedSessions, processedEventFiles, serverSession>>
    /\ UNCHANGED <<sessionVars, publishVars, shutdownVars, keyVars, unwrapVars, poolVars>>

\* a monitor that starts a task for every open it reads
SessionNeverKnown(sessionID) == FALSE

\* monitorNostrSessionEvents: processedSessions[sessionID]
SessionKnown(sessionID) == sessionID \in processedSessions

\* monitorNostrSessionEvents: one file of a pass over the directory
MonitorFile(f) ==
    LET parsed == ReadAndParse(f)
        packet == parsed.packet
    IN  /\ f \in Visible
        /\ f.name \notin processedEventFiles
        /\ processedEventFiles' = processedEventFiles \cup {f.name}
        /\ IF /\ parsed.err = "nil"
              /\ packet.Type = PacketTypeOpen
              /\ packet.Direction = C2S
              /\ ~SessionKnown(packet.SessionID)
           THEN /\ processedSessions' = processedSessions \cup {packet.SessionID}
                /\ serverSession' =
                       [serverSession EXCEPT
                            ![f.name] = StartedSession(packet.SessionID, f.event.PubKey)]
           ELSE UNCHANGED <<processedSessions, serverSession>>
        /\ UNCHANGED eventFiles
        /\ UNCHANGED <<sessionVars, publishVars, shutdownVars, keyVars, unwrapVars,
                       poolVars>>

ServerUnchanged ==
    UNCHANGED <<eventFiles, processedSessions, processedEventFiles, sessionVars,
                publishVars, shutdownVars, keyVars, unwrapVars, poolVars>>

\* handleServerNostrSession: net.Dial; a failure is logged and the task
\* returns, a success starts the two goroutines
Dial(k, ok) ==
    /\ serverSession[k].pc = "dial"
    /\ serverSession' =
           [serverSession EXCEPT
                ![k] = IF ok
                       THEN [@ EXCEPT !.pc = "running", !.targetConn = "open",
                                      !.sessionActive = TRUE, !.ppc = "run",
                                      !.tpc = "run"]
                       ELSE [@ EXCEPT !.pc = "returned", !.targetConn = "failed"]]
    /\ ServerUnchanged

\* a task that applies the client's packets as it finds them
AnyOrder(packet, next) == TRUE

\* the sequence check of the processing goroutine
InOrder(packet, next) == packet.Sequence = next

\* the processing goroutine's filters: the file is new to the task, comes
\* from the session's client, parses, and carries the session's next packet
Accepted(s, f) ==
    LET parsed == ReadAndParse(f)
    IN  /\ f.name \notin s.processedFiles
        /\ f.event.PubKey = s.clientPubkey
        /\ parsed.err = "nil"
        /\ parsed.packet.SessionID = s.sessionID
        /\ parsed.packet.Direction = C2S
        /\ InOrder(parsed.packet, s.nextExpectedSequence)

\* the end of a goroutine of the task: done <- true
GoroutineDone(s, which) ==
    IF which = "ppc" THEN [s EXCEPT !.ppc = "done", !.done = @ + 1]
    ELSE [s EXCEPT !.tpc = "done", !.done = @ + 1]

\* the packet is recorded and the next sequence expected
Processed(s, f, packet) ==
    [s EXCEPT !.processedSequences = @ \cup {packet.Sequence},
              !.processedFiles = @ \cup {f.name},
              !.nextExpectedSequence = @ + 1]

\* the processing goroutine: one file of a pass that passes the filters
ProcessFile(k, f) ==
    LET s == serverSession[k]
        packet == ReadAndParse(f).packet
    IN  /\ s.ppc = "run"
        /\ f \in Visible
        /\ Accepted(s, f)
        /\ serverSession' =
               [serverSession EXCEPT
                    ![k] = IF s.nextExpectedSequence \in s.processedSequences
                           THEN [s EXCEPT !.nextExpectedSequence = @ + 1]
                           ELSE IF packet.Type = PacketTypeData /\ Len(packet.Data) > 0
                           THEN IF s.targetConn = "open"
                                THEN Processed([s EXCEPT !.targetWritten = @ \o packet.Data],
                                               f, packet)
                                ELSE GoroutineDone(s, "ppc")
                           ELSE IF packet.Type = PacketTypeClose
                           THEN GoroutineDone([s EXCEPT !.sessionActive = FALSE], "ppc")
                           ELSE Processed(s, f, packet)]
        /\ ServerUnchanged

\* the processing goroutine finds sessionActive false at the top of its loop
ProcessExit(k) ==
    /\ serverSession[k].ppc = "run"
    /\ ~serverSession[k].sessionActive
    /\ serverSession' = [serverSession EXCEPT ![k] = GoroutineDone(@, "ppc")]
    /\ ServerUnchanged

\* readTargetNostrResponses: a read returns data, which is sent to the
\* client as the next data packet; a failed send ends the goroutine
TargetRead(k, sendOK) ==
    LET s == serverSession[k]
    IN  /\ s.tpc = "run"
        /\ s.targetConn = "open"
        /\ s.sequence < MaxReads
        /\ serverSession' =
               [serverSession EXCEPT
                    ![k] = IF sendOK
                           THEN [s EXCEPT !.sent = Append(@, CreateDataPacket(s.sessionID, S2C,
                                                                 s.sequence, TargetChunk)),
                                          !.sequence = @ + 1]
                           ELSE GoroutineDone(s, "tpc")]
        /\ ServerUnchanged

\* readTargetNostrResponses: the read fails (the target closed, or the task
\* closed the connection); a close packet is sent and the goroutine ends
TargetClosed(k) ==
    LET s == serverSession[k]
    IN  /\ s.tpc = "run"
        /\ serverSession' =
               [serverSession EXCEPT
                    ![k] = GoroutineDone(
                               [s EXCEPT !.sent = Append(@, CreateClosePacket(s.sessionID, S2C,
                                                                s.sequence,
                                                                "target disconnected"))],
                               "tpc")]
        /\ ServerUnchanged

\* handleServerNostrSession: <-done, sessionActive = false, return; the
\* deferred targetConn.Close() runs
SessionReturn(k) ==
    /\ serverSession[k].pc = "running"
    /\ serverSession[k].done > 0
    /\ serverSession' =
           [serverSession EXCEPT
                ![k] = [@ EXCEPT !.done = @ - 1, !.sessionActive = FALSE,
                                 !.pc = "returned", !.targetConn = "closed"]]
    /\ ServerUnchanged

\* the server has started and no event has arrived
InitServer ==
    /\ eventFiles = <<>>
    /\ processedSessions = {}
    /\ processedEventFiles = {}
    /\ serverSession = [k \in FileNames |-> NoSession]

(* ------------------- NewNostrRelayHandler: the pool ------------------- *)
(* A configured relay is its URL and whether the relay accepts the        *)
(* connection during construction.                                        *)

MaxURLs == 3
RelayNames == {"wss://r1", "wss://r2"}
ConfiguredRelay == [url : RelayNames, up : BOOLEAN]

RECURSIVE URLLists(_)
URLLists(n) ==
    IF n = 0 THEN {<<>>}
    ELSE LET shorter == URLLists(n - 1)
         IN  shorter \cup {Append(l, r) : l \in {x \in shorter : Len(x) = n - 1},
                                          r \in ConfiguredRelay}

\* a pool that no relay ever joins
EnsureRelayNever(relays, relay) == relays

\* pool.EnsureRelay: the relay joins the pool when the connection succeeds
EnsureRelay(relays, relay) ==
    IF relay.up THEN relays \cup {relay.url} ELSE relays

\* NewNostrRelayHandler: one turn of the loop over relayURLs; a failure is
\* logged and the loop continues
AddRelay ==
    /\ newHandler = "none"
    /\ urlIndex <= Len(relayURLs)
    /\ pool' = EnsureRelay(pool, relayURLs[urlIndex])
    /\ urlIndex' = urlIndex + 1
    /\ UNCHANGED <<relayURLs, newHandler>>
    /\ UNCHANGED <<sessionVars, publishVars, shutdownVars, keyVars, unwrapVars, serverVars>>

\* NewNostrRelayHandler after the loop: with an empty pool cancel() and the
\* error, otherwise the handler
Construct ==
    /\ newHandler = "none"
    /\ urlIndex > Len(relayURLs)
    /\ IF Cardinality(pool) = 0
       THEN /\ ctx' = "cancelled"
            /\ newHandler' = "error"
       ELSE /\ ctx' = ctx
            /\ newHandler' = "handler"
    /\ UNCHANGED <<relayURLs, urlIndex, pool, chanClosed, subpc>>
    /\ UNCHANGED <<sessionVars, publishVars, keyVars, unwrapVars, serverVars>>

\* NewNostrRelayHandler was called with a list of URLs
InitPool ==
    /\ relayURLs \in URLLists(MaxURLs)
    /\ urlIndex = 1
    /\ pool = {}
    /\ newHandler = "none"

\* NewNostrRelayHandler has returned the handler of one relay
InitPoolReady ==
    /\ relayURLs = <<[url |-> "wss://r1", up |-> TRUE]>>
    /\ urlIndex = 2
    /\ pool = {"wss://r1"}
    /\ newHandler = "handler"

(* ---------------------------- specification --------------------------- *)

\* no connection was accepted yet
InitSessions ==
    /\ hpc = [s \in Sessions |-> "idle"]
    /\ conn = [s \in Sessions |-> "none"]
    /\ sequence = [s \in Sessions |-> 0]
    /\ batchBuffer = [s \in Sessions |-> <<>>]
    /\ timerArmed = [s \in Sessions |-> FALSE]
    /\ numReads = [s \in Sessions |-> 0]
    /\ bytesRead = [s \in Sessions |-> <<>>]
    /\ handed = [s \in Sessions |-> <<>>]
    /\ openResult = [s \in Sessions |-> "none"]
    /\ closeResult = [s \in Sessions |-> "none"]
    /\ done = [s \in Sessions |-> 0]
    /\ rpc = [s \in Sessions |-> "none"]
    /\ rexit = [s \in Sessions |-> "none"]
    /\ processedSequences = [s \in Sessions |-> {}]
    /\ nextExpectedSequence = [s \in Sessions |-> 0]
    /\ pendingPackets = [s \in Sessions |-> EmptyMap]
    /\ written = [s \in Sessions |-> <<>>]
    /\ delivered = [s \in Sessions |-> <<>>]
    /\ arrived = [s \in Sessions |-> [q \in Sequences |-> 0]]
    /\ lost = {}
    /\ everBuffered = [s \in Sessions |-> {}]
    /\ asyncAcks = [s \in Sessions |-> <<>>]

InitState ==
    /\ eventChan = <<>>
    /\ numEvents = 0
    /\ InitSessions

\* the steps of a session's handler after its connection was accepted,
\* for an application that writes nothing to the local socket
HandlerQuiet(s) ==
    \/ SendOpen(s)
    \/ ReadTimeout(s)
    \/ ReadEnd(s)
    \/ SendClose(s)
    \/ SignalDone(s)
    \/ Return(s)

Reader(s) ==
    \/ ReaderEvent(s)
    \/ ReaderDone(s)
    \/ ReaderSignal(s)

\* no publish under observation, the relay handler in service
\* NewNostrRelayHandler and SubscribeToGiftWrapEvents have run
InitRelayHandler ==
    /\ ctx = "live"
    /\ chanClosed = FALSE
    /\ subpc = "running"
    /\ InitPoolReady
    /\ InitServer

\* NewKeyManager has run; nothing was sent yet
InitKeys ==
    /\ keyPoolIndex = 0
    /\ conversationKeyCache = [q \in {} |-> <<>>]
    /\ initializedTargets = {}
    /\ cacheMutex = 0
    /\ wpc = [t \in Tasks |-> "idle"]
    /\ wlocal = [t \in Tasks |-> NoLocals]
    /\ numWraps = 0
    /\ giftWraps = {}
    /\ keyCalls = <<>>
    /\ initCalls = [q \in Targets \cup {InvalidPubkey} |-> 0]
    /\ stores = [q \in Targets \cup {InvalidPubkey} |-> 0]

\* no publish and no unwrap under observation
InitIdle ==
    /\ pubResults = <<>>
    /\ pubReturn = "none"
    /\ inWrap = CHOOSE w \in InGiftWraps : TRUE
    /\ unwrapResult = NoResult

InitService ==
    /\ InitRelayHandler
    /\ InitKeys
    /\ InitIdle

(* Spec: one connection is accepted; the peer's stream for it arrives in   *)
(* any order, with duplicates and with events that are not the session's.  *)

RecvEvents ==
    {Event(ClientPubkey, TRUE, 1, seq, S2C) : seq \in Sequences}
    \cup {Event(ClientPubkey, TRUE, 1, 0, C2S),
          Event(ClientPubkey, TRUE, ForeignSession, 0, S2C),
          Event(ClientPubkey, FALSE, ForeignSession, 0, S2C),
          Event(OtherPubkey, TRUE, ForeignSession, 0, S2C)}

Init ==
    /\ InitState
    /\ InitService
    /\ closeSeq \in {f \in [Sessions -> 0..(MaxSeq + 1)] : f[2] = MaxSeq + 1}

Next ==
    \/ \E e \in RecvEvents : Subscription(e)
    \/ Accept(1)
    \/ HandlerQuiet(1)
    \/ Reader(1)

Spec == Init /\ [][Next]_vars

(* SpecMulti: two concurrent connections share the event channel.          *)

\* the first packet of both streams and a packet of the wrong direction
MultiEvents ==
    {Event(ClientPubkey, TRUE, sid, 0, S2C) : sid \in Sessions}
    \cup {Event(ClientPubkey, TRUE, 1, 0, C2S)}

InitMulti ==
    /\ InitState
    /\ InitService
    /\ closeSeq \in {f \in [Sessions -> {0, MaxSeq + 1}] : f[1] = f[2]}

NextMulti ==
    \/ \E e \in MultiEvents : Subscription(e)
    \/ \E s \in Sessions : Accept(s)
    \/ \E s \in Sessions : HandlerQuiet(s)
    \/ \E s \in Sessions : Reader(s)

SpecMulti == InitMulti /\ [][NextMulti]_vars

(* SpecSend: the application writes to the local socket of one           *)
(* connection; from the peer only the first packet of the stream arrives.  *)

SendEvents == {Event(ClientPubkey, TRUE, 1, 0, S2C)}

InitSend ==
    /\ InitState
    /\ InitService
    /\ closeSeq \in {f \in [Sessions -> {0, MaxSeq + 1}] : f[2] = MaxSeq + 1}

NextSend ==
    \/ \E e \in SendEvents : Subscription(e)
    \/ Accept(1)
    \/ ReadData(1)
    \/ HandlerQuiet(1)
    \/ Reader(1)

SpecSend == InitSend /\ [][NextSend]_vars

(* SpecPublish: one synchronous publish, for every report of the pool.     *)

InitPublish ==
    /\ InitState
    /\ closeSeq = [s \in Sessions |-> MaxSeq + 1]
    /\ InitRelayHandler
    /\ InitKeys
    /\ pubResults \in PublishResults
    /\ pubReturn = "none"
    /\ inWrap = CHOOSE w \in InGiftWraps : TRUE
    /\ unwrapResult = NoResult

NextPublish == Publish

SpecPublish == InitPublish /\ [][NextPublish]_vars

(* SpecKeys: the sending goroutines of the process wrap packets for their  *)
(* recipients concurrently.                                                *)

InitWrap ==
    /\ InitState
    /\ InitService
    /\ closeSeq = [s \in Sessions |-> MaxSeq + 1]

NextKeys ==
    \/ \E t \in Tasks, targetPubkey \in Targets \cup {InvalidPubkey} :
            StartWrap(t, targetPubkey, DefaultPacket)
    \/ \E t \in Tasks : InitLock(t)
    \/ \E t \in Tasks : InitCompute(t)
    \/ \E t \in Tasks : InitStore(t)
    \/ \E t \in Tasks : NextKey(t)
    \/ \E t \in Tasks : WrapAndSign(t)

SpecKeys == InitWrap /\ [][NextKeys]_vars

(* SpecUnwrap: one gift wrap is received and unwrapped, for every form,    *)
(* recipient and content a peer can send.                                  *)

InitUnwrap ==
    /\ InitState
    /\ closeSeq = [s \in Sessions |-> MaxSeq + 1]
    /\ InitRelayHandler
    /\ InitKeys
    /\ pubResults = <<>>
    /\ pubReturn = "none"
    /\ inWrap \in InGiftWraps
    /\ unwrapResult = NoResult

NextUnwrap == Unwrap

SpecUnwrap == InitUnwrap /\ [][NextUnwrap]_vars

(* SpecFull: events tagged for this client arrived before the first        *)
(* connection was accepted and fill the event channel up to one free slot; *)
(* more events arrive while the reader of the connection drains it.        *)

\* the n-th event of the stream (n = 0, 1, ...): it carries n as its sequence
\* and belongs to no session of this process
NumberedEvent(n) == Event(ClientPubkey, TRUE, ForeignSession, n, S2C)

Backlog == [i \in 1..(EventChanCap - 1) |-> NumberedEvent(i - 1)]

\* the event that arrives next
NextEvent == NumberedEvent(Len(Backlog) + numEvents)

InitFull ==
    /\ eventChan = Backlog
    /\ numEvents = 0
    /\ InitSessions
    /\ InitService
    /\ closeSeq = [s \in Sessions |-> MaxSeq + 1]

NextFull ==
    \/ Subscription(NextEvent)
    \/ Accept(1)
    \/ HandlerQuiet(1)
    \/ Reader(1)

SpecFull == InitFull /\ [][NextFull]_vars

(* SpecClose: the relay handler is closed while a session is served.       *)

InitClose ==
    /\ InitState
    /\ InitService
    /\ closeSeq = [s \in Sessions |-> MaxSeq + 1]

NextClose ==
    \/ \E e \in SendEvents : Subscription(e)
    \/ \E e \in SendEvents : SubscriptionCancelled(e)
    \/ SubscriptionStop
    \/ CloseCancel
    \/ CloseChannel
    \/ ~Crashed /\ ctx = "live" /\ Accept(1)
    \/ ~Crashed /\ HandlerQuiet(1)
    \/ ~Crashed /\ Reader(1)
    \/ ReaderClosed(1)

SpecClose == InitClose /\ [][NextClose]_vars

(* SpecRoundTrip: a sender of this process wraps packets for its peers,   *)
(* the last one with any payload and metadata; one of the gift wraps is    *)
(* received by a peer or by a third party.                                 *)

\* payloads and metadata of the packet under observation
Payloads == {<<>>, <<65>>, <<0, 255, 16, 200>>}
PacketTypes == {PacketTypeOpen, PacketTypeData, PacketTypeClose}
Packets ==
    {Packet(data, type, "s1", seq, direction, targetHost, targetPort, clientAddr, errorMsg) :
        data \in Payloads, type \in PacketTypes, seq \in {0, 305},
        direction \in {C2S, S2C}, targetHost \in {"", "example.com"},
        targetPort \in {0, 65535}, clientAddr \in {"", "127.0.0.1:5000"},
        errorMsg \in {"", "connection refused"}}

\* the packets the next call may wrap: any packet in the last call of the
\* run, the default packet before
PacketsOfCall(n) == IF n = MaxWraps THEN Packets ELSE {DefaultPacket}

\* the identities a gift wrap can reach
Receivers == {PeerKeys, OtherKeys, IdentityKeys}

InitRoundTrip ==
    /\ InitState
    /\ InitService
    /\ closeSeq = [s \in Sessions |-> MaxSeq + 1]

NextRoundTrip ==
    \/ \E targetPubkey \in Targets, packet \in PacketsOfCall(numWraps + 1) :
            StartWrap(1, targetPubkey, packet)
    \/ InitLock(1)
    \/ InitCompute(1)
    \/ InitStore(1)
    \/ NextKey(1)
    \/ WrapAndSign(1)
    \/ \E w \in giftWraps, myKeys \in Receivers : Receive(w, myKeys)

SpecRoundTrip == InitRoundTrip /\ [][NextRoundTrip]_vars

(* SpecReject: gift wraps the client cannot use reach the reader of a      *)
(* connection between the packets of its stream: one per way an event can  *)
(* fail the reader's checks.                                               *)

\* a rumor of the peer that passes every check
GoodRumor ==
    Rumor(PeerKeys.PublicKey, RumorKind,
          PeerTags(<<<<"proxy", "tcp">>>>, <<<<"version", Version>>>>,
                   <<<<"sequence", <<"0">>>>>>, <<>>),
          PayloadContent)

\* the same rumor with other tags for proxy, version, sequence and port
GoodRumorWith(version, seqTag, portTag) ==
    [GoodRumor EXCEPT !.Tags = PeerTags(<<<<"proxy", "tcp">>>>, version, seqTag, portTag)]

ForMe(rumor) == PeerGiftWrap("direct", rumor, IdentityKeys.PublicKey)

\* the gift wraps the reader drops: tagged for another key, with a pubkey
\* that is no curve point, encrypted for another key, no JSON inside, a seal
\* inside, a 1.x rumor, a content that is no base64, a sequence and a port
\* that are no numbers
RejectedWraps ==
    {PeerGiftWrap("direct", GoodRumor, OtherKeys.PublicKey),
     [ForMe(GoodRumor) EXCEPT !.PubKey = InvalidPubkey],
     [PeerGiftWrap("direct", GoodRumor, OtherKeys.PublicKey)
          EXCEPT !.Tags = <<<<"p", IdentityKeys.PublicKey>>>>],
     PeerGiftWrap("junk", GoodRumor, IdentityKeys.PublicKey),
     PeerGiftWrap("sealed", GoodRumor, IdentityKeys.PublicKey),
     ForMe(GoodRumorWith(<<<<"version", OldVersion>>>>, <<<<"sequence", <<"0">>>>>>, <<>>)),
     ForMe([GoodRumor EXCEPT !.Content = BrokenContent]),
     ForMe(GoodRumorWith(<<<<"version", Version>>>>, <<<<"sequence", <<"x">>>>>>, <<>>)),
     ForMe(GoodRumorWith(<<<<"version", Version>>>>, <<<<"sequence", <<"0">>>>>>,
                         <<<<"target_port", <<"x">>>>>>))}

\* the event of the reader for a gift wrap that claims to carry the packet
\* (sid, seq) of the peer: its p tag as IsEventForMe sees it, and whether
\* UnwrapEphemeralGiftWrap returns a packet for it
GiftWrapEvent(giftWrap, sid, seq) ==
    [p |-> IF \E i \in 1..Len(giftWrap.Tags) :
                  giftWrap.Tags[i] = <<"p", IdentityKeys.PublicKey>>
           THEN ClientPubkey ELSE OtherPubkey,
     wrapOK |-> UnwrapEphemeralGiftWrap(giftWrap, IdentityKeys).err = "nil",
     pkt |-> ParsedPacket(sid, seq, S2C),
     err |-> UnwrapEphemeralGiftWrap(giftWrap, IdentityKeys).err]

\* the first packets of the stream, and the events that are dropped
RejectEvents ==
    {Event(ClientPubkey, TRUE, 1, seq, S2C) : seq \in 0..1}
    \cup {GiftWrapEvent(w, 1, seq) : w \in RejectedWraps, seq \in 0..1}

InitReject ==
    /\ InitState
    /\ InitService
    /\ closeSeq = [s \in Sessions |-> MaxSeq + 1]

NextReject ==
    \/ \E e \in RejectEvents : Subscription(e)
    \/ Accept(1)
    \/ SendOpen(1)
    \/ ReaderEvent(1)

SpecReject == InitReject /\ [][NextReject]_vars

(* SpecBatch: the handler of one session alone, with several reads of the  *)
(* local socket, so that a read can find a batch already in the buffer.    *)

\* number of successful socket reads of the handler in SpecBatch
MaxBatchReads == 2

InitBatch ==
    /\ InitState
    /\ InitService
    /\ closeSeq = [s \in Sessions |-> MaxSeq + 1]

NextBatch ==
    \/ Accept(1)
    \/ SendOpen(1)
    \/ ReadUpTo(1, MaxBatchReads)
    \/ ReadTimeout(1)
    \/ ReadEnd(1)
    \/ SendClose(1)
    \/ SignalDone(1)
    \/ Return(1)

SpecBatch == InitBatch /\ [][NextBatch]_vars

(* SpecTunnel: the client and the egress together.  What the handler of    *)
(* session 1 emits reaches the egress as event files, and what the egress  *)
(* sends reaches the reader of session 1 through the subscription.  The    *)
(* session of the files is the client's session 1; a file stands for the   *)
(* emitted packet of its type and sequence.                                *)

\* the session id of the event files
FileSession == "s1"

\* an event the client has emitted is stored in the egress's directory
Carry(f) ==
    /\ f.event.PubKey = PeerKeys.PublicKey
    /\ \E i \in DOMAIN handed[1] :
          /\ handed[1][i].Type = ReadAndParse(f).packet.Type
          /\ handed[1][i].Sequence = ReadAndParse(f).packet.Sequence
    /\ NewEventFile(f)

\* a data packet the egress has sent reaches the client's subscription
Forward(k, i) ==
    /\ i \in DOMAIN serverSession[k].sent
    /\ LET packet == serverSession[k].sent[i]
       IN  /\ packet.SessionID = FileSession
           /\ packet.Type = PacketTypeData
           /\ packet.Sequence \in Sequences
           /\ Subscription(Event(ClientPubkey, TRUE, 1, packet.Sequence,
                                 packet.Direction))

InitTunnel ==
    /\ InitState
    /\ InitService
    /\ closeSeq = [s \in Sessions |-> MaxSeq + 1]

NextTunnel ==
    \/ Accept(1)
    \/ SendOpen(1)
    \/ ReadData(1)
    \/ \E f \in ServerFiles : Carry(f)
    \/ \E f \in ServerFiles : MonitorFile(f)
    \/ \E k \in FileNames : Dial(k, TRUE)
    \/ \E k \in FileNames, f \in ServerFiles : ProcessFile(k, f)
    \/ \E k \in FileNames, sendOK \in BOOLEAN : TargetRead(k, sendOK)
    \/ \E k \in FileNames, i \in 1..MaxReads : Forward(k, i)
    \/ ReaderEvent(1)

SpecTunnel == InitTunnel /\ [][NextTunnel]_vars

(* SpecLive: the session of Spec with events for other sessions arriving   *)
(* without end, and with the scheduling the Go runtime gives: a goroutine  *)
(* that can take a step takes it, and a select whose done case stays       *)
(* ready takes it eventually.  When the local socket ends is up to the     *)
(* local client.                                                           *)

\* events for other sessions wait in the channel up to this number
MaxQueued == 1

\* the subscription goroutine puts one more event for another session into
\* the channel
Arrival(event) ==
    /\ subpc = "running"
    /\ ctx = "live"
    /\ Len(eventChan) < MaxQueued
    /\ eventChan' = Enqueue(eventChan, event)
    /\ UNCHANGED <<closeSeq, numEvents, handlerVars, done, readerVars>>
    /\ UNCHANGED serviceVars

\* the peer's first two packets; the second may be its close
LiveEvents == {Event(ClientPubkey, TRUE, 1, seq, S2C) : seq \in 0..1}

InitLive ==
    /\ InitState
    /\ InitService
    /\ closeSeq \in {f \in [Sessions -> {1, MaxSeq + 1}] : f[2] = MaxSeq + 1}

NextLive ==
    \/ \E e \in LiveEvents : Subscription(e)
    \/ Arrival(Event(ClientPubkey, TRUE, ForeignSession, 0, S2C))
    \/ Accept(1)
    \/ HandlerQuiet(1)
    \/ Reader(1)

Fairness ==
    /\ WF_vars(SendClose(1))
    /\ WF_vars(SignalDone(1))
    /\ WF_vars(Return(1))
    /\ WF_vars(ReaderDone(1))
    /\ WF_vars(ReaderSignal(1))

SpecLive == InitLive /\ [][NextLive]_vars /\ Fairness

(* SpecInject: besides the server, a third party that knows the client's   *)
(* public key and the session id sends gift wraps to the client.           *)

\* the rumor of a third party for sequence seq of the session: its own
\* public key as author, the tags and the payload of a data packet
ForgedRumor(seq) ==
    Rumor(OtherKeys.PublicKey, RumorKind,
          PeerTags(<<<<"proxy", "tcp">>>>, <<<<"version", Version>>>>,
                   <<<<"sequence", Sprintf(seq)>>>>, <<>>),
          PayloadContent)

\* a byte of a packet, tagged with the packet's source public key
ByteFrom(pubkey, sid, seq) == [sid |-> sid, seq |-> seq, dir |-> S2C, src |-> pubkey]

\* the reader's event for the third party's gift wrap: what IsEventForMe
\* and UnwrapEphemeralGiftWrap make of it
InjectedEvent(sid, seq) ==
    LET giftWrap == ForMe(ForgedRumor(seq))
        unwrapped == UnwrapEphemeralGiftWrap(giftWrap, IdentityKeys)
    IN  [p |-> IF \E i \in 1..Len(giftWrap.Tags) :
                      giftWrap.Tags[i] = <<"p", IdentityKeys.PublicKey>>
               THEN ClientPubkey ELSE OtherPubkey,
         wrapOK |-> unwrapped.err = "nil",
         pkt |-> [SessionID |-> sid,
                  Sequence |-> unwrapped.packet.Sequence,
                  Direction |-> unwrapped.packet.Direction,
                  Type |-> unwrapped.packet.Type,
                  ClientPubkey |-> unwrapped.packet.ClientPubkey,
                  Data |-> [i \in 1..Len(unwrapped.packet.Data) |->
                               ByteFrom(unwrapped.packet.ClientPubkey, sid, seq)]]]

InjectEvents ==
    {Event(ClientPubkey, TRUE, 1, seq, S2C) : seq \in 0..1}
    \cup {InjectedEvent(1, seq) : seq \in Sequences}

InitInject ==
    /\ InitState
    /\ InitService
    /\ closeSeq = [s \in Sessions |-> MaxSeq + 1]

NextInject ==
    \/ \E e \in InjectEvents : Subscription(e)
    \/ Accept(1)
    \/ SendOpen(1)
    \/ ReaderEvent(1)

SpecInject == InitInject /\ [][NextInject]_vars

(* SpecServer: the egress of server_nostr.go; the client's events reach    *)
(* the directory in any order, the target accepts or refuses the           *)
(* connection and closes at any time.                                      *)

InitServerRun ==
    /\ InitState
    /\ InitService
    /\ closeSeq = [s \in Sessions |-> MaxSeq + 1]

NextServer ==
    \/ \E f \in ServerFiles : NewEventFile(f)
    \/ \E f \in ServerFiles : MonitorFile(f)
    \/ \E k \in FileNames, ok \in BOOLEAN : Dial(k, ok)
    \/ \E k \in FileNames, f \in ServerFiles : ProcessFile(k, f)
    \/ \E k \in FileNames : ProcessExit(k)
    \/ \E k \in FileNames, sendOK \in BOOLEAN : TargetRead(k, sendOK)
    \/ \E k \in FileNames : TargetClosed(k)
    \/ \E k \in FileNames : SessionReturn(k)

SpecServer == InitServerRun /\ [][NextServer]_vars

(* SpecConnect: NewNostrRelayHandler over every list of configured relays. *)

InitConnect ==
    /\ InitState
    /\ closeSeq = [s \in Sessions |-> MaxSeq + 1]
    /\ ctx = "live"
    /\ chanClosed = FALSE
    /\ subpc = "none"
    /\ InitKeys
    /\ InitIdle
    /\ InitServer
    /\ InitPool

NextConnect ==
    \/ AddRelay
    \/ Construct

SpecConnect == InitConnect /\ [][NextConnect]_vars

(* ------------------------------- claims ------------------------------- *)

Min(a, b) == IF a < b THEN a ELSE b

\* the payloads of the peer's packets 0 .. n-1 of session s, in sequence order
RECURSIVE PayloadsUpTo(_, _)
PayloadsUpTo(s, n) ==
    IF n = 0 THEN <<>>
    ELSE PayloadsUpTo(s, n - 1) \o ParsedPacket(s, n - 1, S2C).Data

\* the largest n such that every packet 0 .. n-1 has reached the reader of s
ArrivedPrefix(s) ==
    CHOOSE n \in 0..(MaxSeq + 1) :
        /\ \A q \in 0..(n - 1) : arrived[s][q] > 0
        /\ n = MaxSeq + 1 \/ arrived[s][n] = 0

\* how often the byte of packet q was written to the socket of s
TimesWritten(s, q) ==
    Cardinality({i \in 1..Len(written[s]) : written[s][i] = Byte(s, q, S2C)})

IsDataEvent(e) == e.Type = PacketTypeData

\* C1: whatever the arrival order of the packets 0..N-1 at the reader (each
\* at least once, writes succeeding), the socket received the data payloads
\* in ascending sequence order up to the close, and at every moment what was
\* written is the payloads of an initial run of processed sequences.
C1_OrderedDelivery ==
    \A s \in Sessions :
        /\ \E m \in 0..(MaxSeq + 1) :
              /\ written[s] = PayloadsUpTo(s, m)
              /\ \A q \in 0..(m - 1) : q \in processedSequences[s]
        /\ rexit[s] # "writeErr" =>
              written[s] = PayloadsUpTo(s, Min(ArrivedPrefix(s), closeSeq[s]))

\* the packets 1 and 2 arrived before packet 0 and all three were written
C1_Witness ==
    /\ everBuffered[1] = {1, 2}
    /\ Len(written[1]) = 3
    /\ written[1] = PayloadsUpTo(1, 3)

\* C2: with several sessions open, every server_to_client packet put on the
\* event channel is processed by the reader of the session it carries; no
\* reader of another session takes it from the channel and discards it
\* while the reader it is addressed to is running.
C2_PacketReachesItsReader == lost = {}

\* C3: the events a session hands to the relay handler carry the sequences
\* 0, 1, ..., k in this order: the open first, then data, the close last.
C3_SendSequence ==
    \A s \in Sessions : \A i \in 1..Len(handed[s]) :
        /\ handed[s][i].Sequence = i - 1
        /\ handed[s][i].Type = PacketTypeOpen <=> i = 1
        /\ handed[s][i].Type = PacketTypeClose => i = Len(handed[s])

\* an open, a data event and the close were handed over
C3_Witness ==
    /\ Len(handed[1]) = 3
    /\ IsDataEvent(handed[1][2])
    /\ handed[1][3].Type = PacketTypeClose

\* C4: a packet that reaches the reader several times is written exactly
\* once: no byte is written twice, and every data packet below the next
\* expected sequence was written once.
C4_WrittenOnce ==
    \A s \in Sessions : \A q \in Sequences :
        /\ TimesWritten(s, q) <= 1
        /\ (q < nextExpectedSequence[s] /\ TypeOf(s, q, S2C) = PacketTypeData)
              => TimesWritten(s, q) = 1

\* packet 1 reached the reader twice, was buffered, and was written
C4_Witness ==
    /\ arrived[1][1] >= 2
    /\ 1 \in everBuffered[1]
    /\ TimesWritten(1, 1) = 1

\* C5: once the close at sequence k was processed the reader has left its
\* loop, and no packet with a sequence above k was written, whether it was
\* waiting in the buffer or not.
C5_CloseIsTerminal ==
    \A s \in Sessions :
        closeSeq[s] \in processedSequences[s] =>
            /\ rpc[s] # "running"
            /\ rexit[s] = "close"
            /\ \A i \in 1..Len(written[s]) : written[s][i].seq < closeSeq[s]

\* the close was processed although a later packet had reached the reader
C5_Witness ==
    /\ rexit[1] = "close"
    /\ written[1] # <<>>
    /\ \E q \in Sequences : q > closeSeq[1] /\ arrived[1][q] > 0

\* C6: a session reads from its socket and creates data events only after
\* the synchronous publish of its open at sequence 0 returned success.
C6_OpenBeforeData ==
    \A s \in Sessions :
        (numReads[s] > 0 \/ \E i \in 1..Len(handed[s]) : IsDataEvent(handed[s][i]))
            => /\ openResult[s] = "ok"
               /\ handed[s][1].Type = PacketTypeOpen
               /\ handed[s][1].Sequence = 0

\* a data event was handed over
C6_Witness == \E i \in 1..Len(handed[1]) : IsDataEvent(handed[1][i])

C8_OnlyOwnData ==
    \A s \in Sessions : \A i \in 1..Len(written[s]) :
        written[s][i].sid = s /\ written[s][i].dir = S2C

\* reader 1 took the packet of session 2 from the channel and wrote its own
C8_Witness == <<2, 0>> \in lost /\ written[1] # <<>>

\* C9: the sequences a reader has processed are 0, 1, ..., n-1 in this
\* order, so nothing above a sequence that never arrived is delivered.
C9_InitialSegment ==
    \A s \in Sessions :
        /\ \A i \in 1..Len(delivered[s]) : delivered[s][i] = i - 1
        /\ processedSequences[s] = {delivered[s][i] : i \in 1..Len(delivered[s])}
        /\ \A q \in processedSequences[s] : \A g \in 0..q : arrived[s][g] > 0

\* packet 0 never arrived, later packets did, and nothing was delivered
C9_Witness ==
    /\ numEvents = MaxEvents
    /\ eventChan = <<>>
    /\ arrived[1][0] = 0
    /\ arrived[1][1] > 0
    /\ arrived[1][2] > 0
    /\ delivered[1] = <<>>
    /\ written[1] = <<>>

\* C10: after a failed open the session hands over nothing more, starts no
\* reader and ends with the socket closed; after a failed close the handler
\* is never blocked and ends with the socket closed.
C10_SyncErrorsEndCleanly ==
    \A s \in Sessions :
        /\ openResult[s] \in {"createErr", "publishErr"} =>
              /\ rpc[s] = "none"
              /\ hpc[s] \in {"return", "done"}
              /\ numReads[s] = 0
              /\ closeResult[s] = "none"
              /\ Len(handed[s]) = IF openResult[s] = "publishErr" THEN 1 ELSE 0
        /\ closeResult[s] \in {"createErr", "publishErr"} =>
              hpc[s] \in {"signal", "return", "done"}
        /\ hpc[s] = "signal" => done[s] < DoneCap
        /\ hpc[s] = "done" => conn[s] = "closed"

\* the publish of the open was rejected and the handler has ended
C10_Witness ==
    /\ openResult[1] = "publishErr"
    /\ hpc[1] = "done"
    /\ conn[1] = "closed"

\* C11: PublishEvent returns no error exactly when at least one relay
\* reported the event without an error; with no report at all, or with
\* errors only, it returns an error.
C11_FanOut ==
    pubReturn # "none" =>
        /\ pubReturn = "nil" <=>
               \E i \in 1..Len(pubResults) : ~pubResults[i].Error
        /\ pubResults = <<>> => pubReturn = "err"

\* one relay accepted the event, the others reported errors, and the
\* publish succeeded
C11_Witness ==
    /\ pubReturn = "nil"
    /\ Len(pubResults) = Cardinality(RelayURLs)
    /\ Cardinality({i \in 1..Len(pubResults) : pubResults[i].Error}) = Len(pubResults) - 1

\* C12: a data event that every relay rejects is handed over like any
\* other: the sender's counter advances past its sequence, the events of
\* the session keep consecutive sequences, and the handler is not stopped.
C12_AsyncErrorsIgnored ==
    \A s \in Sessions : \A k \in 1..Len(asyncAcks[s]) :
        asyncAcks[s][k] = {} =>
            /\ IsDataEvent(handed[s][k + 1])
            /\ handed[s][k + 1].Sequence = k
            /\ sequence[s] > k
            /\ \A i \in 1..Len(handed[s]) : handed[s][i].Sequence = i - 1
            /\ hpc[s] \in {"reading", "close", "signal", "return", "done"}

\* every relay rejected the data event at sequence 1 and the session went
\* on to publish its close at sequence 2
C12_Witness ==
    /\ asyncAcks[1] = <<{}>>
    /\ Len(handed[1]) = 3
    /\ handed[1][3].Type = PacketTypeClose
    /\ handed[1][3].Sequence = 2
    /\ closeResult[1] = "ok"

\* C13: the event channel never holds more than 100 events and holds them
\* in arrival order; an event that arrives while it is full is discarded
\* and the queued events stay; events leave only at the head; and the
\* subscription goroutine can always take its next step, full channel or not.
C13_BoundedDropNewest ==
    /\ [](Len(eventChan) <= EventChanCap)
    /\ [](\A i \in 1..(Len(eventChan) - 1) :
              eventChan[i].pkt.Sequence < eventChan[i + 1].pkt.Sequence)
    /\ [][(numEvents' # numEvents /\ Len(eventChan) = EventChanCap)
              => eventChan' = eventChan]_vars
    /\ [][\/ eventChan' = eventChan
          \/ eventChan # <<>> /\ eventChan' = Tail(eventChan)
          \/ /\ Len(eventChan) < EventChanCap
             /\ numEvents' # numEvents
             /\ eventChan' = Append(eventChan, NextEvent)]_vars
    /\ [](numEvents < MaxEvents => ENABLED Subscription(NextEvent))

\* event 100 arrived at the full channel and was discarded, event 0 was
\* received, and event 101 is queued right behind event 99
C13_Witness ==
    /\ Len(eventChan) = EventChanCap
    /\ Head(eventChan) = NumberedEvent(1)
    /\ eventChan[EventChanCap - 1] = NumberedEvent(EventChanCap - 1)
    /\ eventChan[EventChanCap] = NumberedEvent(EventChanCap + 1)

\* a gift wrap that is addressed to this process and carries a well-formed
\* rumor of a compatible version
WellFormed(w) ==
    /\ w.to = IdentityKeys.PublicKey
    /\ w.form \in {"direct", "sealed"}
    /\ UnwrapEphemeralGiftWrap(PeerGiftWrap("direct", w.rumor, w.to), IdentityKeys).err = "nil"

\* C14: after Close no goroutine faults: the subscription goroutine does
\* not send on the closed channel and every reader ends normally.
C14_CleanShutdown == ~Crashed


\* C15: every call of getNextEphemeralKey returns an index in 0..N-1 with
\* the pool key pair at that index; among any N consecutive calls, from
\* whichever tasks, no index repeats; two successive calls return
\* different public keys when N >= 2.
C15_Rotation ==
    /\ \A i \in 1..Len(keyCalls) :
          /\ keyCalls[i].index \in PoolIndices
          /\ keyCalls[i].oneTimeKey = ephemeralKeyPool[keyCalls[i].index]
    /\ \A i, j \in 1..Len(keyCalls) :
          (i < j /\ j - i < keyPoolSize) => keyCalls[i].index # keyCalls[j].index
    /\ \A i \in 1..(Len(keyCalls) - 1) :
          keyPoolSize >= 2 =>
              keyCalls[i].oneTimeKey.PublicKey # keyCalls[i + 1].oneTimeKey.PublicKey

\* more than N keys were drawn and both tasks hold a key they drew
C15_Witness ==
    /\ Len(keyCalls) > keyPoolSize
    /\ \A t \in Tasks : wpc[t] = "conv"

\* C16: the cache entry of a target is stored at most once, however many
\* tasks ran its initializer; whatever is in the cache is the complete array
\* of that target's N secrets; and a stored entry never changes.
C16_SingleInitializer ==
    /\ [](\A q \in Targets \cup {InvalidPubkey} :
              /\ stores[q] <= 1
              /\ q \in initializedTargets <=> stores[q] = 1
              /\ q \in initializedTargets <=> q \in DOMAIN conversationKeyCache
              /\ q \in DOMAIN conversationKeyCache =>
                     conversationKeyCache[q] = ComputeConversationKeys(q))
    /\ [][\A q \in DOMAIN conversationKeyCache :
              /\ q \in DOMAIN conversationKeyCache'
              /\ conversationKeyCache'[q] = conversationKeyCache[q]]_vars

\* both tasks ran the initializer for the same target, and it was stored once
C16_Witness ==
    \E q \in Targets :
        /\ initCalls[q] = Cardinality(Tasks)
        /\ stores[q] = 1
        /\ \A t \in Tasks : wpc[t] \in {"key", "conv"} /\ wlocal[t].targetPubkey = q

\* the target a gift wrap is tagged for
TargetOf(event) == event.Tags[1][2]

\* C17: every gift wrap is encrypted with the cache entry of its target at
\* the index of the pool key pair that is its pubkey and its signer; and
\* a task that looks up a secret finds the complete entry of its target.
C17_LockStep ==
    /\ \A w \in giftWraps : \E i \in PoolIndices :
          /\ w.event.PubKey = ephemeralKeyPool[i].PublicKey
          /\ w.event.Sig = ephemeralKeyPool[i].PrivateKey
          /\ TargetOf(w.event) \in DOMAIN conversationKeyCache
          /\ w.event.Content.key = conversationKeyCache[TargetOf(w.event)][i]
          /\ w.event.Content.key =
                 GenerateConversationKey(TargetOf(w.event),
                                         ephemeralKeyPool[i].PrivateKey).key
    /\ \A t \in Tasks :
          /\ wpc[t] # "panic"
          /\ wpc[t] \in {"key", "conv"} =>
                 /\ wlocal[t].targetPubkey \in initializedTargets
                 /\ DOMAIN conversationKeyCache[wlocal[t].targetPubkey] = PoolIndices

\* the two tasks hold keys for different targets while wraps were emitted
C17_Witness ==
    /\ giftWraps # {}
    /\ \A t \in Tasks : wpc[t] = "conv"
    /\ wlocal[1].targetPubkey # wlocal[2].targetPubkey

\* C18: no two gift wraps of the process carry the same outer public key.
C18_OneTimeKeys ==
    \A w1, w2 \in giftWraps :
        w1.call # w2.call => w1.event.PubKey # w2.event.PubKey

\* C19: every event returned for publishing is a gift wrap (kind 21059)
\* under a pool key, never the identity key, with the single tag
\* ["p", target]; the rumor inside (kind 20547) carries no signature.
C19_OuterEvent ==
    \A w \in giftWraps :
        /\ w.event.Kind = GiftWrapKind
        /\ \E i \in PoolIndices : w.event.PubKey = ephemeralKeyPool[i].PublicKey
        /\ w.event.PubKey # IdentityKeys.PublicKey
        /\ w.event.Sig # IdentityKeys.PrivateKey
        /\ Len(w.event.Tags) = 1
        /\ \E q \in Targets : w.event.Tags = <<<<"p", q>>>>
        /\ w.event.Content.plaintext.Kind = RumorKind
        /\ w.event.Content.plaintext.Sig = Unsigned
        /\ w.event.Content.plaintext.PubKey = IdentityKeys.PublicKey

\* gift wraps for both targets were returned
C19_Witness == {TargetOf(w.event) : w \in giftWraps} = Targets

\* C20: a well-formed gift wrap addressed to this process is unwrapped to
\* its packet in the direct form and in the sealed form alike.
C20_BothFormsAccepted ==
    (unwrapResult # NoResult /\ WellFormed(inWrap)) => unwrapResult.err = "nil"

\* C21: a decrypted rumor is accepted only if its kind is 20547, its proxy
\* tag is tcp and its version tag is compatible; a rumor without the proxy
\* tag, or with another value of it, is rejected.
C21_RumorValidated ==
    unwrapResult.err = "nil" =>
        /\ inWrap.rumor.Kind = RumorKind
        /\ getTagValue(inWrap.rumor.Tags, "proxy") = "tcp"
        /\ CheckVersionCompatibility(inWrap.rumor)

\* the value of the version tag of a rumor that has one
VersionOf(rumor) ==
    rumor.Tags[CHOOSE i \in TagsNamed(rumor.Tags, "version") : TRUE][2]

\* the gift wrap received decrypts under the key of this process to a
\* rumor of kind 20547
ReachesVersionCheck(w) ==
    /\ w.to = w.km.PublicKey
    /\ w.form = "direct"
    /\ w.rumor.Kind = RumorKind

\* the payload and the numbers of the rumor are well-formed text
TextOK(rumor) ==
    /\ rumor.Content # BrokenContent
    /\ \A i \in TagsNamed(rumor.Tags, "sequence") \cup TagsNamed(rumor.Tags, "target_port") :
          \A k \in 1..Len(rumor.Tags[i][2]) : IsDigit(rumor.Tags[i][2][k])

Rejected(event) == event.p # ClientPubkey \/ ~event.wrapOK

\* C23: when a reader takes from the channel an event that is not addressed
\* to this key or that UnwrapEphemeralGiftWrap rejects, the reader stays in
\* its loop, its next expected sequence, buffer and processed set are
\* unchanged, nothing is written, and the handler and the socket of the
\* session are left alone.
C23_RejectedEventsDropped ==
    [][\A s \in Sessions :
          (/\ rpc[s] = "running"
           /\ eventChan # <<>>
           /\ eventChan' = Tail(eventChan)
           /\ Rejected(Head(eventChan)))
          => /\ rpc'[s] = "running"
             /\ rexit'[s] = rexit[s]
             /\ nextExpectedSequence'[s] = nextExpectedSequence[s]
             /\ pendingPackets'[s] = pendingPackets[s]
             /\ processedSequences'[s] = processedSequences[s]
             /\ written'[s] = written[s]
             /\ delivered'[s] = delivered[s]
             /\ hpc'[s] = hpc[s]
             /\ conn'[s] = conn[s]]_vars

\* the reader took two events from the channel, dropped one of them and
\* wrote the payload of the other, and is running
C23_Witness ==
    /\ numEvents = 2
    /\ eventChan = <<>>
    /\ arrived[1][0] = 1
    /\ arrived[1][1] = 0
    /\ written[1] = PayloadsUpTo(1, 1)
    /\ rpc[1] = "running"

\* the gift wrap under observation was unwrapped by the identity it was
\* created for
ByRecipient == unwrapResult # NoResult /\ inWrap.km.PublicKey = inWrap.to

\* C24: unwrapping, with the recipient's key, a gift wrap this process
\* created for the recipient returns the payload and every field of the
\* metadata of the packet that was wrapped, and as source public key the
\* identity key of the sender, not the pubkey of the gift wrap.
C24_RoundTrip ==
    ByRecipient =>
        /\ unwrapResult.err = "nil"
        /\ unwrapResult.packet.Data = inWrap.packet.Data
        /\ unwrapResult.packet.Type = inWrap.packet.Type
        /\ unwrapResult.packet.SessionID = inWrap.packet.SessionID
        /\ unwrapResult.packet.Sequence = inWrap.packet.Sequence
        /\ unwrapResult.packet.Direction = inWrap.packet.Direction
        /\ unwrapResult.packet.TargetHost = inWrap.packet.TargetHost
        /\ unwrapResult.packet.TargetPort = inWrap.packet.TargetPort
        /\ unwrapResult.packet.ClientAddr = inWrap.packet.ClientAddr
        /\ unwrapResult.packet.ErrorMsg = inWrap.packet.ErrorMsg
        /\ unwrapResult.packet.ClientPubkey = IdentityKeys.PublicKey
        /\ unwrapResult.packet.ClientPubkey # inWrap.event.PubKey

\* a close with a payload, an error message, a target and a sequence of
\* several digits went through the round trip
C24_Witness ==
    /\ ByRecipient
    /\ unwrapResult.err = "nil"
    /\ inWrap.packet.Type = PacketTypeClose
    /\ Len(inWrap.packet.Data) > 3
    /\ inWrap.packet.Sequence > 9
    /\ inWrap.packet.TargetPort > 0
    /\ inWrap.packet.TargetHost # ""
    /\ inWrap.packet.ErrorMsg # ""
    /\ inWrap.packet.ClientAddr # ""

\* C25: unwrapping a gift wrap with the secret of an identity other than
\* the one it is addressed to fails with a decryption error and returns no
\* packet.
C25_CrossKeyIsolation ==
    (unwrapResult # NoResult /\ inWrap.km.PublicKey # inWrap.to) =>
        /\ unwrapResult.err = "decrypt error"
        /\ unwrapResult.packet = NilPacket

\* a third party, and the sender itself, failed to unwrap a gift wrap that
\* carries a payload
C25_Witness ==
    /\ unwrapResult.err = "decrypt error"
    /\ inWrap.km.PublicKey # inWrap.to
    /\ inWrap.km \in {OtherKeys, IdentityKeys}
    /\ inWrap.to = PeerKeys.PublicKey
    /\ "packet" \in DOMAIN inWrap
    /\ inWrap.packet.Data # <<>>

\* C26: when the server cannot connect to the target it sends the client a
\* close packet with an error, in direction server_to_client, and the
\* session ends without any data delivered.
C26_DialFailureReported ==
    \A k \in FileNames :
        serverSession[k].targetConn = "failed" =>
            /\ serverSession[k].pc = "returned"
            /\ serverSession[k].targetWritten = <<>>
            /\ \E i \in DOMAIN serverSession[k].sent :
                   /\ serverSession[k].sent[i].Type = PacketTypeClose
                   /\ serverSession[k].sent[i].Direction = S2C
                   /\ serverSession[k].sent[i].ErrorMsg # ""

\* the tasks started for a session id, and those that connected to the target
SessionTasks(sessionID) ==
    {k \in FileNames : /\ serverSession[k].pc # "none"
                       /\ serverSession[k].sessionID = sessionID}
Connections(sessionID) ==
    {k \in SessionTasks(sessionID) : serverSession[k].targetConn \in {"open", "closed"}}

\* C27: a second open for a session id that is already handled starts no
\* second session task and no second connection to the target.
C27_DuplicateOpenIgnored ==
    \A sessionID \in {"s1"} :
        /\ Cardinality(SessionTasks(sessionID)) <= 1
        /\ Cardinality(Connections(sessionID)) <= 1

\* the monitor has read both opens of session s1, whose task is connected
C27_Witness ==
    /\ {1, 2} \subseteq processedEventFiles
    /\ \E k \in {1, 2} : serverSession[k].targetConn = "open"

\* the payload of the packet with sequence q that the task has processed
PayloadAt(s, q) ==
    LET fs == {f \in Visible : /\ f.name \in s.processedFiles
                               /\ ReadAndParse(f).packet.Sequence = q}
    IN  IF fs = {} THEN <<>> ELSE ReadAndParse(CHOOSE f \in fs : TRUE).packet.Data

RECURSIVE PayloadsBelow(_, _)
PayloadsBelow(s, q) ==
    IF q = 0 THEN <<>> ELSE PayloadsBelow(s, q - 1) \o PayloadAt(s, q - 1)

\* the open of the task's session was processed
OpenProcessed(s) ==
    \E f \in Visible : /\ f.name \in s.processedFiles
                        /\ ReadAndParse(f).packet.Type = PacketTypeOpen
                        /\ ReadAndParse(f).packet.Sequence = 0

\* the data files of the task's session that its client wrote
DataFiles(s) ==
    {f \in Visible : /\ f.event.PubKey = s.clientPubkey
                     /\ ReadAndParse(f).packet.SessionID = s.sessionID
                     /\ ReadAndParse(f).packet.Type = PacketTypeData}

\* C28: a data packet that is visible before the open of its session is
\* held: the target receives a payload only after the open was processed,
\* what it received is exactly the payloads of the packets below the next
\* expected sequence, in order, and a data packet not yet written is still
\* in the directory at or above the next expected sequence.
C28_OpenBeforeData ==
    \A k \in FileNames :
        LET s == serverSession[k]
        IN  s.pc # "none" =>
                /\ s.targetWritten # <<>> => OpenProcessed(s)
                /\ s.targetWritten = PayloadsBelow(s, s.nextExpectedSequence)
                /\ \A f \in DataFiles(s) :
                       f.name \notin s.processedFiles =>
                           s.nextExpectedSequence
                               <= ReadAndParse(f).packet.Sequence

\* the data packet reached the directory first, both opens after it, and
\* its payload is at the target
C28_Witness ==
    /\ Len(eventFiles) >= 3
    /\ eventFiles[1].name = 3
    /\ \E k \in {1, 2} : serverSession[k].targetWritten = <<65>>

\* the configured relays that accept the connection
Up == {i \in DOMAIN relayURLs : relayURLs[i].up}

\* C29: NewNostrRelayHandler tries every configured URL; it returns the
\* error, with the root context cancelled, exactly when no relay connected,
\* and otherwise the handler over the relays that did.
C29_PartialRelayFailure ==
    newHandler # "none" =>
        /\ urlIndex = Len(relayURLs) + 1
        /\ newHandler = "error" <=> Up = {}
        /\ newHandler = "error" => ctx = "cancelled"
        /\ newHandler = "handler" =>
               /\ ctx = "live"
               /\ pool = {relayURLs[i].url : i \in Up}

\* the first and the last of three relays refused, the second connected,
\* and the handler was returned
C29_Witness ==
    /\ newHandler = "handler"
    /\ Len(relayURLs) = 3
    /\ Up = {2}

\* the payloads of the data events in a log of emitted events, concatenated
RECURSIVE EmittedPayload(_)
EmittedPayload(log) ==
    IF log = <<>> THEN <<>>
    ELSE (IF Head(log).Type = PacketTypeData THEN Head(log).Data ELSE <<>>)
         \o EmittedPayload(Tail(log))

CloseEmitted(log) == \E i \in DOMAIN log : log[i].Type = PacketTypeClose

\* C30: the payloads of the data events a client session has emitted, in
\* order, are a prefix of what it has read from the local socket, and all
\* of it once the close is emitted.
C30_StreamIntegrity ==
    \A s \in Sessions :
        LET emitted == EmittedPayload(handed[s])
        IN  /\ Len(emitted) <= Len(bytesRead[s])
            /\ emitted = SubSeq(bytesRead[s], 1, Len(emitted))
            /\ CloseEmitted(handed[s]) => emitted = bytesRead[s]

\* the close of session s has reached its reader
CloseArrived(s) == closeSeq[s] \in Sequences /\ arrived[s][closeSeq[s]] > 0

\* C31: a close that reaches the reader while a sequence below it is not
\* yet delivered is kept in the out-of-order buffer and does not end the
\* reader; when the reader has ended because of the close, every packet
\* below the close has been delivered and its payload written, in order.
C31_CloseWaitsForData ==
    \A s \in Sessions :
        /\ (/\ CloseArrived(s)
            /\ rexit[s] = "none"
            /\ \E q \in 0..(closeSeq[s] - 1) : q \notin processedSequences[s]) =>
               /\ closeSeq[s] \in DOMAIN pendingPackets[s]
               /\ pendingPackets[s][closeSeq[s]].Type = PacketTypeClose
               /\ rpc[s] = "running"
        /\ rexit[s] = "close" =>
               /\ \A q \in 0..(closeSeq[s] - 1) : q \in processedSequences[s]
               /\ written[s] = PayloadsUpTo(s, closeSeq[s])

\* the close at sequence 2 was buffered, then the packets 0 and 1 came and
\* the reader ended with both payloads written
C31_Witness ==
    /\ closeSeq[1] = 2
    /\ 2 \in everBuffered[1]
    /\ rexit[1] = "close"
    /\ Len(written[1]) = 2

\* C38: an initialization that fails stores no cache entry and does not
\* mark the recipient, the wrap returns without a gift wrap, and it takes
\* no pool key: every index handed out belongs to a wrap for a recipient
\* whose secrets were computed.
C38_FailedInitLeavesNoTrace ==
    /\ InvalidPubkey \notin DOMAIN conversationKeyCache
    /\ InvalidPubkey \notin initializedTargets
    /\ stores[InvalidPubkey] = 0
    /\ \A w \in giftWraps : TargetOf(w.event) # InvalidPubkey
    /\ \A t \in Tasks :
          wpc[t] \in {"computed", "key", "conv"} => wlocal[t].targetPubkey \in Targets
    /\ keyPoolIndex = Cardinality(giftWraps) + Cardinality({t \in Tasks : wpc[t] = "conv"})
    /\ Len(keyCalls) = keyPoolIndex

\* the initialization for the invalid recipient failed twice, the second
\* time after a wrap for a valid recipient had taken a key, and both tasks
\* are back at their callers
C38_Witness ==
    /\ initCalls[InvalidPubkey] = 2
    /\ keyPoolIndex = 1
    /\ Cardinality(giftWraps) = 1
    /\ \A t \in Tasks : wpc[t] = "idle"
    /\ numWraps = 3

\* the text is a decimal number and nothing else
AllDigits(text) == text # <<>> /\ \A i \in DOMAIN text : IsDigit(text[i])

\* C39: a rumor is returned as a packet only if it has a sequence tag whose
\* whole value is a decimal unsigned number, and the packet carries that
\* number.
C39_BadSequenceRejected ==
    (unwrapResult # NoResult /\ unwrapResult.err = "nil") =>
        /\ TagsNamed(inWrap.rumor.Tags, "sequence") # {}
        /\ AllDigits(getTagValue(inWrap.rumor.Tags, "sequence"))
        /\ unwrapResult.packet.Sequence =
               Sscanf(getTagValue(inWrap.rumor.Tags, "sequence"), FALSE).value

\* C40: while the reader waits for an event its processed set is exactly
\* the sequences below nextExpectedSequence and every buffered sequence is
\* above nextExpectedSequence; and a step in which it goes on waiting with
\* a new nextExpectedSequence has delivered the expected packet and all
\* its consecutive buffered successors, and taken those out of the buffer.
C40_ReorderBuffer ==
    /\ [](\A s \in Sessions :
             rpc[s] = "running" =>
                 /\ processedSequences[s] = 0..(nextExpectedSequence[s] - 1)
                 /\ \A q \in DOMAIN pendingPackets[s] : q > nextExpectedSequence[s])
    /\ [][\A s \in Sessions :
             (/\ rpc[s] = "running"
              /\ rpc'[s] = "running"
              /\ nextExpectedSequence'[s] # nextExpectedSequence[s]) =>
                 LET old == nextExpectedSequence[s]
                     new == nextExpectedSequence'[s]
                 IN  /\ new > old
                     /\ \A q \in (old + 1)..(new - 1) : q \in DOMAIN pendingPackets[s]
                     /\ new \notin DOMAIN pendingPackets[s]
                     /\ DOMAIN pendingPackets'[s] =
                            DOMAIN pendingPackets[s] \ ((old + 1)..(new - 1))
                     /\ delivered'[s] =
                            delivered[s] \o [i \in 1..(new - old) |-> old + i - 1]]_vars

\* the packets 1 and 2 waited in the buffer for packet 0, all three were
\* delivered and the reader waits for the next event
C40_Witness ==
    /\ rpc[1] = "running"
    /\ everBuffered[1] = {1, 2}
    /\ delivered[1] = <<0, 1, 2>>
    /\ pendingPackets[1] = EmptyMap

\* C32: a client session writes to its socket only payloads of packets whose
\* source public key is the server's.
C32_OnlyCounterpart ==
    \A s \in Sessions :
        \A i \in DOMAIN written[s] :
            "src" \in DOMAIN written[s][i] => written[s][i].src = PeerKeys.PublicKey

\* C33: the done channel never holds more than its two places and has room
\* whenever the handler or the reader is about to signal, and once the read
\* loop of the handler has ended the handler returns and the socket is
\* closed.
C33_SignallingNeverBlocks ==
    /\ [](\A s \in Sessions :
             /\ done[s] <= DoneCap
             /\ (hpc[s] = "signal" \/ rpc[s] = "exiting") => done[s] < DoneCap)
    /\ \A s \in Sessions :
          hpc[s] = "close" ~> (hpc[s] = "done" /\ conn[s] = "closed")

\* the reader had ended on the peer's close and signalled, then the handler
\* signalled too and returned: two values are in the channel
C33_Witness ==
    /\ done[1] = DoneCap
    /\ rexit[1] = "close"
    /\ rpc[1] = "stopped"
    /\ hpc[1] = "done"
    /\ conn[1] = "closed"

\* C34: once the handler has signalled done, a reader that is still running
\* ends, and a reader that has ended takes nothing from the event channel.
C34_ReaderEnds ==
    /\ \A s \in Sessions :
          (hpc[s] \in {"return", "done"} /\ rpc[s] = "running") ~> rpc[s] = "stopped"
    /\ [][(rpc[1] \in {"exiting", "stopped"}) =>
              \/ Len(eventChan') >= Len(eventChan)
              \/ eventChan' = eventChan]_vars

\* the reader took the handler's signal while events for it and for others
\* were still in the channel, and has ended
C34_Witness ==
    /\ rexit[1] = "done"
    /\ rpc[1] = "stopped"
    /\ hpc[1] = "done"
    /\ Len(eventChan) >= 2
    /\ \E i \in DOMAIN eventChan : Accepts(eventChan[i], 1)

C37_SameConvention ==
    \A k \in FileNames :
        LET s == serverSession[k]
        IN  /\ s.pc = "dial" =>
                  /\ handed[1] # <<>>
                  /\ handed[1][1].Sequence = s.nextExpectedSequence
                  /\ s.sequence = nextExpectedSequence[1]
            /\ s.targetWritten # <<>> =>
                  handed[1][1].Sequence \in s.processedSequences
            /\ s.sent # <<>> =>
                  LET q == s.sent[1].Sequence
                  IN  /\ q \in Sequences
                      /\ q \notin everBuffered[1]
                      /\ arrived[1][q] > 0 => q \in processedSequences[1]

\* the open and the data of the client were applied by the egress, and the
\* first packet of the egress was written to the local socket
C37_Witness ==
    \E k \in FileNames :
        /\ 0 \in serverSession[k].processedSequences
        /\ serverSession[k].targetWritten # <<>>
        /\ serverSession[k].sent # <<>>
        /\ arrived[1][serverSession[k].sent[1].Sequence] > 0
        /\ written[1] # <<>>
====
